---- MODULE Spec2Model ----
(***************************************************************************)
(* Resource lifecycle (Create / Read / Update / Delete) of three resources *)
(* of the AzureRM provider -- azurerm_monitor_diagnostic_setting,          *)
(* azurerm_servicebus_namespace and azurerm_service_plan -- together with  *)
(* the payload construction of the diagnostic setting and the generated    *)
(* resource ID parsers.                                                    *)
(*                                                                         *)
(* The three resources do not interact, so a behaviour follows one         *)
(* resource instance (res), chosen in Init.  The remote control plane is   *)
(* the environment: every answer it can give is a nondeterministic choice. *)
(***************************************************************************)
EXTENDS Integers, Sequences, FiniteSets, TLC

VARIABLES
    res,      \* the resource type this behaviour follows
    remote,   \* the remote object: "absent", "appearing", "present", "vanishing"
    id,       \* d.Id(): "" when the resource is not in state
    op,       \* the handler that is running: "none", "create", "read", "update", "delete"
    pc,       \* the handler's position
    result,   \* what the handler returned ("none" while it runs, "ok", or an error kind)
    got,      \* the answer of the handler's first Get ("none" before it)
    writes,   \* the write requests (CreateOrUpdate...) the handler has issued
    payload,  \* the payload the handler has built and not yet sent
    existing, \* Update: the model returned by the Get
    change,   \* what the handler read of the configuration and of its changes
    obs,      \* WaitForStateContext: the states the refreshes have returned so far
    cnt,      \* WaitForStateContext: consecutive target occurrences
    idSet,    \* d.SetId(<id>) was called by the running handler
    waited,   \* the running handler has waited for the remote operation to completion
    deleted,  \* the delete requests the running handler has issued
    stage,    \* the steps the handler has completed, in order
    idIn,     \* ID parsers: the input of the last call
    idOut     \* ID parsers: the result of the last call

vars == <<res, remote, id, op, pc, result, got, writes, payload, existing, change,
          obs, cnt, idSet, waited, deleted, stage, idIn, idOut>>

lifeVars == <<res, remote, id, op, pc, result, got, writes, payload, existing, change,
              obs, cnt, idSet, waited, deleted, stage>>

idVars == <<idIn, idOut>>

(***************************************************************************)
(* Bounds                                                                  *)
(***************************************************************************)
\* refreshes a WaitForStateContext can make before its timeout is certain
MaxPolls == 6
\* entries of a configuration set (enabled_log, enabled_metric, metric)
MaxEntries == 2
\* attributes that change in one Update of a namespace or of a service plan
MaxChanges == 2

(***************************************************************************)
(* Program constants                                                       *)
(***************************************************************************)
CreateContinuousTargetOccurence == 3
DeleteContinuousTargetOccurence == 5

Resources == {"monitor", "servicebus", "serviceplan"}

ResourceId == "id"

NoPayload == [kind |-> "none"]

(***************************************************************************)
(* The remote API.  A Get answers without error (the object was found),    *)
(* with an error whose HTTP response is 404, or with any other error.  An  *)
(* object that is appearing or vanishing is eventually consistent: a Get   *)
(* may or may not see it.                                                  *)
(***************************************************************************)
RespFound == [err |-> FALSE, status |-> "ok"]
RespNotFound == [err |-> TRUE, status |-> "notfound"]
RespFailed == [err |-> TRUE, status |-> "failed"]
\* no request made yet
RespNone == [err |-> FALSE, status |-> "none"]

GetResponses(r) ==
    CASE r = "absent" -> {RespNotFound, RespFailed}
      [] r = "present" -> {RespFound, RespFailed}
      [] OTHER -> {RespFound, RespNotFound, RespFailed}

WasNotFound(resp) == resp.status = "notfound"

(***************************************************************************)
(* The import guard at the head of each Create: what the handler does with *)
(* the answer of the existence Get ("error", "import" or "proceed").       *)
(***************************************************************************)
\* mutant: the guard against an existing resource is left out
MonitorExistsCheckNoImport(resp) ==
    IF resp.err /\ ~WasNotFound(resp) THEN "error" ELSE "proceed"

MonitorExistsCheck(resp) ==
    IF resp.err /\ ~WasNotFound(resp) THEN "error"
    ELSE IF ~WasNotFound(resp) THEN "import"
    ELSE "proceed"

ServiceBusExistsCheck(resp) ==
    IF resp.err /\ ~WasNotFound(resp) THEN "error"
    ELSE IF ~WasNotFound(resp) THEN "import"
    ELSE "proceed"

ServicePlanExistsCheck(resp) ==
    IF resp.err /\ ~WasNotFound(resp) THEN "error"
    ELSE IF ~WasNotFound(resp) THEN "import"
    ELSE "proceed"

(***************************************************************************)
(* Monitor diagnostic setting: configuration values and API models.        *)
(* A nil pointer to a string is "", a nil retention policy is <<>>.        *)
(***************************************************************************)
Policy == [days |-> 7, enabled |-> TRUE]

\* enabled_log blocks: category and category_group are optional
EnabledLogBlocks ==
    [category : {"", "Audit"}, category_group : {"", "allLogs"}, retention_policy : {<<>>}]
    \cup {[category |-> "Audit", category_group |-> "", retention_policy |-> <<Policy>>]}

\* enabled_metric blocks: category is required
EnabledMetricBlocks == {[category |-> "AllMetrics"]}

\* metric blocks (before 5.0): category is required, enabled defaults to true
MetricBlocks ==
    [category : {"AllMetrics"}, enabled : BOOLEAN, retention_policy : {<<>>}]
    \cup {[category |-> "AllMetrics", enabled |-> TRUE, retention_policy |-> <<Policy>>]}

\* the lists a schema Set of at most MaxEntries of the blocks S can yield
RECURSIVE ListsOf(_, _)
ListsOf(S, n) ==
    IF n = 0 THEN {<<>>}
    ELSE LET shorter == ListsOf(S, n - 1)
         IN  shorter \cup {Append(l, x) : l \in {k \in shorter : Len(k) = n - 1},
                                           x \in S}

Distinct(l) == \A i, j \in 1..Len(l) : i # j => l[i] # l[j]

SetLists(S) == {l \in ListsOf(S, MaxEntries) : Distinct(l)}

Configs ==
    {d \in [enabled_log : SetLists(EnabledLogBlocks),
            enabled_metric : SetLists(EnabledMetricBlocks),
            metric : SetLists(MetricBlocks),
            fivePointOh : BOOLEAN] :
        d.fivePointOh => d.metric = <<>>}

\* the remote setting holds at most one entry per category
RemoteLogs ==
    {l \in ListsOf([Category : {"Audit", "Ops"}, CategoryGroup : {""},
                    Enabled : BOOLEAN, RetentionPolicy : {<<>>}], 2) :
        \A i, j \in 1..Len(l) : i # j => l[i].Category # l[j].Category}

RemoteMetrics ==
    ListsOf([Category : {"AllMetrics"}, Enabled : BOOLEAN, RetentionPolicy : {<<>>}], 1)

NilModel == [nil |-> TRUE]

RemoteModels ==
    {NilModel} \cup [nil : {FALSE}, Logs : RemoteLogs, Metrics : RemoteMetrics]

expandRetentionPolicy(policiesRaw) ==
    IF Len(policiesRaw) # 0
    THEN <<[Days |-> policiesRaw[1].days, Enabled |-> policiesRaw[1].enabled]>>
    ELSE <<>>

expandEnabledLogAccepts(v) == v.category # "" \/ v.category_group # ""

expandEnabledLog(v) ==
    [Category |-> v.category,
     CategoryGroup |-> IF v.category # "" THEN "" ELSE v.category_group,
     Enabled |-> TRUE,
     RetentionPolicy |-> expandRetentionPolicy(v.retention_policy)]

expandMonitorDiagnosticsSettingsEnabledLogs(input) ==
    IF \E i \in 1..Len(input) : ~expandEnabledLogAccepts(input[i])
    THEN [err |-> "exactly one of category or category_group must be specified",
          results |-> <<>>]
    ELSE [err |-> "", results |-> [i \in 1..Len(input) |-> expandEnabledLog(input[i])]]

expandMonitorDiagnosticsSettingsMetrics(input) ==
    [i \in 1..Len(input) |->
        [Category |-> input[i].category,
         Enabled |-> input[i].enabled,
         RetentionPolicy |-> expandRetentionPolicy(input[i].retention_policy)]]

expandMonitorDiagnosticsSettingsEnabledMetrics(input) ==
    [i \in 1..Len(input) |->
        [Category |-> input[i].category, Enabled |-> TRUE, RetentionPolicy |-> <<>>]]

AnyEnabled(l) == \E i \in 1..Len(l) : l[i].Enabled

\* mutant: the settings that are disabled already are left out
DisabledOfEnabled(l) ==
    LET enabled == SelectSeq(l, LAMBDA v : v.Enabled)
    IN  [i \in 1..Len(enabled) |-> [enabled[i] EXCEPT !.Enabled = FALSE]]

Disabled(l) == [i \in 1..Len(l) |-> [l[i] EXCEPT !.Enabled = FALSE]]

NothingEnabledError == "at least one type of Log or Metric must be enabled"

\* resourceMonitorDiagnosticSettingCreate, from the configuration d to the
\* parameters of CreateOrUpdate (or the error returned before it)
MonitorCreateParameters(d) ==
    LET hasLogBlocks == Len(d.enabled_log) > 0
        expanded == expandMonitorDiagnosticsSettingsEnabledLogs(d.enabled_log)
        logs == IF hasLogBlocks THEN expanded.results ELSE <<>>
        hasEnabledLogs == hasLogBlocks
        oldMetrics == IF ~d.fivePointOh
                      THEN expandMonitorDiagnosticsSettingsMetrics(d.metric)
                      ELSE <<>>
        hasMetricBlocks == Len(d.enabled_metric) > 0
        metrics == IF hasMetricBlocks
                   THEN expandMonitorDiagnosticsSettingsEnabledMetrics(d.enabled_metric)
                   ELSE oldMetrics
        hasEnabledMetrics == AnyEnabled(oldMetrics) \/ hasMetricBlocks
    IN  IF hasLogBlocks /\ expanded.err # ""
        THEN [err |-> "expanding enabled_log", Logs |-> <<>>, Metrics |-> <<>>]
        ELSE IF ~hasEnabledMetrics /\ ~hasEnabledLogs
        THEN [err |-> NothingEnabledError, Logs |-> <<>>, Metrics |-> <<>>]
        ELSE [err |-> "", Logs |-> logs, Metrics |-> metrics]

\* d.HasChange of the three attributes; enabled_metric and metric conflict in
\* the schema and are both computed, so a plan changes at most one of them
Changes ==
    {c \in [enabled_log : BOOLEAN, enabled_metric : BOOLEAN, metric : BOOLEAN] :
        ~(c.enabled_metric /\ c.metric)}

\* mutant: of the settings of an unchanged attribute only the enabled are sent
MonitorUpdateParametersOfEnabled(d, c, e) ==
    LET changedLogBlocks == c.enabled_log /\ Len(d.enabled_log) > 0
        expanded == expandMonitorDiagnosticsSettingsEnabledLogs(d.enabled_log)
        logs == IF c.enabled_log
                THEN IF Len(d.enabled_log) > 0 THEN expanded.results ELSE Disabled(e.Logs)
                ELSE SelectSeq(e.Logs, LAMBDA v : v.Enabled)
        hasEnabledLogs == IF c.enabled_log THEN Len(d.enabled_log) > 0
                          ELSE AnyEnabled(e.Logs)
        newMetrics == IF c.enabled_metric
                      THEN IF Len(d.enabled_metric) > 0
                           THEN expandMonitorDiagnosticsSettingsEnabledMetrics(d.enabled_metric)
                           ELSE Disabled(e.Metrics)
                      ELSE SelectSeq(e.Metrics, LAMBDA v : v.Enabled)
        newEnabled == IF c.enabled_metric THEN Len(d.enabled_metric) > 0
                      ELSE AnyEnabled(e.Metrics)
        oldChanged == ~d.fivePointOh /\ c.metric
        oldMetrics == expandMonitorDiagnosticsSettingsMetrics(d.metric)
        metrics == IF oldChanged THEN oldMetrics ELSE newMetrics
        hasEnabledMetrics == newEnabled \/ (oldChanged /\ AnyEnabled(oldMetrics))
    IN  IF changedLogBlocks /\ expanded.err # ""
        THEN [err |-> "expanding enabled_log", Logs |-> <<>>, Metrics |-> <<>>]
        ELSE IF ~hasEnabledMetrics /\ ~hasEnabledLogs
        THEN [err |-> NothingEnabledError, Logs |-> <<>>, Metrics |-> <<>>]
        ELSE [err |-> "", Logs |-> logs, Metrics |-> metrics]

\* resourceMonitorDiagnosticSettingUpdate, from the configuration d, its
\* changes c and the model e returned by Get to the parameters of CreateOrUpdate
MonitorUpdateParameters(d, c, e) ==
    LET changedLogBlocks == c.enabled_log /\ Len(d.enabled_log) > 0
        expanded == expandMonitorDiagnosticsSettingsEnabledLogs(d.enabled_log)
        logs == IF c.enabled_log
                THEN IF Len(d.enabled_log) > 0 THEN expanded.results ELSE Disabled(e.Logs)
                ELSE e.Logs
        hasEnabledLogs == IF c.enabled_log THEN Len(d.enabled_log) > 0
                          ELSE AnyEnabled(e.Logs)
        newMetrics == IF c.enabled_metric
                      THEN IF Len(d.enabled_metric) > 0
                           THEN expandMonitorDiagnosticsSettingsEnabledMetrics(d.enabled_metric)
                           ELSE Disabled(e.Metrics)
                      ELSE e.Metrics
        newEnabled == IF c.enabled_metric THEN Len(d.enabled_metric) > 0
                      ELSE AnyEnabled(e.Metrics)
        oldChanged == ~d.fivePointOh /\ c.metric
        oldMetrics == expandMonitorDiagnosticsSettingsMetrics(d.metric)
        metrics == IF oldChanged THEN oldMetrics ELSE newMetrics
        hasEnabledMetrics == newEnabled \/ (oldChanged /\ AnyEnabled(oldMetrics))
    IN  IF changedLogBlocks /\ expanded.err # ""
        THEN [err |-> "expanding enabled_log", Logs |-> <<>>, Metrics |-> <<>>]
        ELSE IF ~hasEnabledMetrics /\ ~hasEnabledLogs
        THEN [err |-> NothingEnabledError, Logs |-> <<>>, Metrics |-> <<>>]
        ELSE [err |-> "", Logs |-> logs, Metrics |-> metrics]

\* monitorDiagnosticSettingRefreshFunc
monitorDiagnosticSettingRefreshFunc(resp) ==
    IF resp.err
    THEN IF WasNotFound(resp) THEN [state |-> "NotFound", err |-> FALSE]
         ELSE [state |-> "", err |-> TRUE]
    ELSE [state |-> "Exists", err |-> FALSE]

\* mutant: one target occurrence is enough
CreateStateConfOnce ==
    [Pending |-> {"NotFound"}, Target |-> {"Exists"}, ContinuousTargetOccurence |-> 1]

\* the StateChangeConf of Create
CreateStateConf ==
    [Pending |-> {"NotFound"}, Target |-> {"Exists"},
     ContinuousTargetOccurence |-> CreateContinuousTargetOccurence]

\* mutant: one target occurrence is enough
DeleteStateConfOnce ==
    [Pending |-> {"Exists"}, Target |-> {"NotFound"}, ContinuousTargetOccurence |-> 1]

\* the StateChangeConf of Delete
DeleteStateConf ==
    [Pending |-> {"Exists"}, Target |-> {"NotFound"},
     ContinuousTargetOccurence |-> DeleteContinuousTargetOccurence]

(***************************************************************************)
(* The lifecycle.  Terraform calls Create for a resource that is not in    *)
(* state, and Read, Update and Delete for one that is; a handler runs to   *)
(* its return before the next one starts.                                  *)
(***************************************************************************)
Idle == [idle |-> TRUE]

LifeInit ==
    /\ res \in Resources
    /\ remote \in {"absent", "present"}
    /\ id \in {"", ResourceId}
    /\ op = "none"
    /\ pc = "idle"
    /\ result = "none"
    /\ got = RespNone
    /\ writes = <<>>
    /\ payload = NoPayload
    /\ existing = NilModel
    /\ change = Idle
    /\ obs = <<>>
    /\ cnt = 0
    /\ idSet = FALSE
    /\ waited = FALSE
    /\ deleted = 0
    /\ stage = <<>>

\* a handler is entered with fresh locals
Enter(o, first) ==
    /\ op = "none"
    /\ op' = o
    /\ pc' = first
    /\ result' = "none"
    /\ got' = RespNone
    /\ writes' = <<>>
    /\ payload' = NoPayload
    /\ existing' = NilModel
    /\ change' = Idle
    /\ obs' = <<>>
    /\ cnt' = 0
    /\ idSet' = FALSE
    /\ waited' = FALSE
    /\ deleted' = 0
    /\ stage' = <<>>
    /\ UNCHANGED <<res, remote, id>>
    /\ UNCHANGED idVars

StartCreate == id = "" /\ Enter("create", "exists")

StartRead == id # "" /\ Enter("read", "read")

StartUpdate == id # "" /\ Enter("update", "get")

StartDelete == id # "" /\ Enter("delete", "delete")

\* the handler returns r
Return(r) == pc' = "done" /\ result' = r

\* the handler has returned and its locals are gone; after a successful
\* Delete the SDK removes the resource from state
Returned ==
    /\ pc = "done"
    /\ op' = "none"
    /\ pc' = "idle"
    /\ id' = IF op = "delete" /\ result = "ok" THEN "" ELSE id
    /\ result' = "none"
    /\ got' = RespNone
    /\ writes' = <<>>
    /\ payload' = NoPayload
    /\ existing' = NilModel
    /\ change' = Idle
    /\ obs' = <<>>
    /\ cnt' = 0
    /\ idSet' = FALSE
    /\ waited' = FALSE
    /\ deleted' = 0
    /\ stage' = <<>>
    /\ UNCHANGED <<res, remote>>
    /\ UNCHANGED idVars

\* the remote API becomes consistent
Settle ==
    /\ remote \in {"appearing", "vanishing"}
    /\ remote' = IF remote = "appearing" THEN "present" ELSE "absent"
    /\ UNCHANGED <<res, id, op, pc, result, got, writes, payload, existing, change,
                   obs, cnt, idSet, waited, deleted, stage>>
    /\ UNCHANGED idVars

(***************************************************************************)
(* azurerm_monitor_diagnostic_setting                                      *)
(***************************************************************************)
MonitorCreateExists ==
    /\ res = "monitor" /\ op = "create" /\ pc = "exists"
    /\ \E resp \in GetResponses(remote) :
         LET verdict == MonitorExistsCheck(resp)
         IN  /\ got' = resp
             /\ IF verdict = "proceed"
                THEN pc' = "build" /\ UNCHANGED result
                ELSE Return(verdict)
    /\ UNCHANGED <<res, remote, id, op, writes, payload, existing, change, obs, cnt,
                   idSet, waited, deleted, stage>>
    /\ UNCHANGED idVars

MonitorCreateBuild ==
    /\ res = "monitor" /\ op = "create" /\ pc = "build"
    /\ \E d \in Configs :
         LET parameters == MonitorCreateParameters(d)
         IN  /\ change' = [enabled_log |-> d.enabled_log]
             /\ IF parameters.err # ""
                THEN Return(parameters.err) /\ UNCHANGED payload
                ELSE /\ payload' = [kind |-> "setting", Logs |-> parameters.Logs,
                                    Metrics |-> parameters.Metrics]
                     /\ pc' = "write"
                     /\ UNCHANGED result
    /\ UNCHANGED <<res, remote, id, op, got, writes, existing, obs, cnt, idSet,
                   waited, deleted, stage>>
    /\ UNCHANGED idVars

\* client.CreateOrUpdate: the request is issued; when it succeeds the setting
\* becomes visible eventually
MonitorCreateWrite ==
    /\ res = "monitor" /\ op = "create" /\ pc = "write"
    /\ writes' = Append(writes, payload)
    /\ payload' = NoPayload
    /\ change' = Idle
    /\ \E ok \in BOOLEAN :
         IF ok
         THEN /\ remote' = "appearing"
              /\ stage' = Append(stage, "written")
              /\ pc' = "wait"
              /\ UNCHANGED result
         ELSE Return("creating") /\ UNCHANGED <<remote, stage>>
    /\ UNCHANGED <<res, id, op, got, existing, obs, cnt, idSet, waited, deleted>>
    /\ UNCHANGED idVars

\* one refresh of stateConf.WaitForStateContext
MonitorWaitRefresh ==
    /\ res = "monitor" /\ op \in {"create", "delete"} /\ pc = "wait"
    /\ Len(obs) < MaxPolls
    /\ \E resp \in GetResponses(remote) :
         LET conf == IF op = "create" THEN CreateStateConf ELSE DeleteStateConf
             r == monitorDiagnosticSettingRefreshFunc(resp)
         IN  /\ obs' = Append(obs, r.state)
             /\ IF r.err
                THEN Return("waiting") /\ UNCHANGED <<cnt, waited, stage>>
                ELSE IF r.state \in conf.Target
                  THEN /\ cnt' = cnt + 1
                       /\ IF cnt + 1 = conf.ContinuousTargetOccurence
                          THEN /\ waited' = TRUE
                               /\ stage' = Append(stage, "waited")
                               /\ IF op = "create"
                                  THEN pc' = "setid" /\ UNCHANGED result
                                  ELSE Return("ok")
                          ELSE UNCHANGED <<pc, result, waited, stage>>
                  ELSE IF r.state \in conf.Pending
                  THEN cnt' = 0 /\ UNCHANGED <<pc, result, waited, stage>>
                  ELSE Return("unexpected state") /\ UNCHANGED <<cnt, waited, stage>>
    /\ UNCHANGED <<res, remote, id, op, got, writes, payload, existing, change, idSet,
                   deleted>>
    /\ UNCHANGED idVars

\* the deadline of the context passes during the wait
MonitorWaitTimeout ==
    /\ res = "monitor" /\ op \in {"create", "delete"} /\ pc = "wait"
    /\ Return("waiting")
    /\ UNCHANGED <<res, remote, id, op, got, writes, payload, existing, change, obs,
                   cnt, idSet, waited, deleted, stage>>
    /\ UNCHANGED idVars

MonitorCreateSetId ==
    /\ res = "monitor" /\ op = "create" /\ pc = "setid"
    /\ id' = ResourceId
    /\ idSet' = TRUE
    /\ stage' = Append(stage, "setid")
    /\ pc' = "read"
    /\ UNCHANGED <<res, remote, op, result, got, writes, payload, existing, change,
                   obs, cnt, waited, deleted>>
    /\ UNCHANGED idVars

\* resourceMonitorDiagnosticSettingRead, also the tail of Create and Update;
\* flattening fails when a destination ID of the response does not parse
\* the destination IDs a Get can return: none (nil or ""), the ID as the
\* parsers write it, the ID in another case, and a string that is no ID
RemoteIds == {"", "/ID", "/id", "bad"}

\* ParseAuthorizationRuleIDInsensitively, ParseWorkspaceIDInsensitively and
\* ParseStorageAccountIDInsensitively, followed by ID()
ParseDestinationIDInsensitively(v) ==
    IF v \in {"/ID", "/id"} THEN [err |-> FALSE, ID |-> "/ID"] ELSE [err |-> TRUE, ID |-> ""]

\* the models Read can get: a nil model or nil properties, or properties
ReadModels ==
    {NilModel} \cup
    [nil : {FALSE}, EventHubAuthorizationRuleId : RemoteIds, WorkspaceId : RemoteIds,
     StorageAccountId : RemoteIds, MarketplacePartnerId : {"", "/ID"}]

\* the destination attributes in state before a Read: none set, or all set
PriorStates ==
    {[eventhub_authorization_rule_id |-> v, log_analytics_workspace_id |-> v,
      storage_account_id |-> v, partner_solution_id |-> v] : v \in {"", "/OLD"}}

\* resourceMonitorDiagnosticSettingRead on the destinations of the model: the
\* d.Set calls in their order, up to the first ID that does not parse
FlattenDestinations(prior, model) ==
    LET eventhub == ParseDestinationIDInsensitively(model.EventHubAuthorizationRuleId)
        workspace == ParseDestinationIDInsensitively(model.WorkspaceId)
        storage == ParseDestinationIDInsensitively(model.StorageAccountId)
        s1 == [prior EXCEPT !.eventhub_authorization_rule_id =
                  IF model.EventHubAuthorizationRuleId # "" THEN eventhub.ID ELSE ""]
        s2 == [s1 EXCEPT !.log_analytics_workspace_id =
                  IF model.WorkspaceId # "" THEN workspace.ID ELSE ""]
        s3 == IF model.StorageAccountId # ""
              THEN [s2 EXCEPT !.storage_account_id = storage.ID] ELSE s2
        s4 == IF model.MarketplacePartnerId # ""
              THEN [s3 EXCEPT !.partner_solution_id = model.MarketplacePartnerId] ELSE s3
    IN  IF model.nil THEN [err |-> FALSE, state |-> prior]
        ELSE IF model.EventHubAuthorizationRuleId # "" /\ eventhub.err
        THEN [err |-> TRUE, state |-> prior]
        ELSE IF model.WorkspaceId # "" /\ workspace.err
        THEN [err |-> TRUE, state |-> s1]
        ELSE IF model.StorageAccountId # "" /\ storage.err
        THEN [err |-> TRUE, state |-> s2]
        ELSE [err |-> FALSE, state |-> s4]

ReadInputs == PriorStates \X ReadModels

\* for the Read at the end of Create and Update, whose state is not followed:
\* one input that is read and one that is not
ReadBackInputs ==
    {in \in ReadInputs :
        /\ in[1].storage_account_id = ""
        /\ ~in[2].nil
        /\ in[2].EventHubAuthorizationRuleId \in {"/ID", "bad"}
        /\ in[2].WorkspaceId = "" /\ in[2].StorageAccountId = ""
        /\ in[2].MarketplacePartnerId = ""}

\* resourceMonitorDiagnosticSettingRead, also the tail of Create and Update
MonitorRead ==
    /\ res = "monitor" /\ pc = "read"
    /\ stage' = Append(stage, "read")
    /\ \E resp \in GetResponses(remote) :
         \E in \in IF op = "read" THEN ReadInputs ELSE ReadBackInputs :
           LET flat == FlattenDestinations(in[1], in[2])
           IN  /\ got' = IF op = "read" THEN resp ELSE got
               /\ IF resp.err
                  THEN /\ UNCHANGED payload
                       /\ IF WasNotFound(resp)
                          THEN id' = "" /\ Return("ok")
                          ELSE Return("retrieving") /\ UNCHANGED id
                  ELSE /\ payload' = IF op = "read"
                                     THEN [kind |-> "state", before |-> in[1],
                                           model |-> in[2], state |-> flat.state]
                                     ELSE payload
                       /\ Return(IF flat.err THEN "parsing" ELSE "ok")
                       /\ UNCHANGED id
    /\ UNCHANGED <<res, remote, op, writes, existing, change, obs, cnt,
                   idSet, waited, deleted>>
    /\ UNCHANGED idVars

MonitorUpdateGet ==
    /\ res = "monitor" /\ op = "update" /\ pc = "get"
    /\ \E resp \in GetResponses(remote), model \in RemoteModels :
         /\ got' = resp
         /\ IF resp.err
            THEN Return("retrieving") /\ UNCHANGED existing
            ELSE IF model.nil
            THEN Return("unexpected null model") /\ UNCHANGED existing
            ELSE existing' = model /\ pc' = "build" /\ UNCHANGED result
    /\ UNCHANGED <<res, remote, id, op, writes, payload, change, obs, cnt, idSet,
                   waited, deleted, stage>>
    /\ UNCHANGED idVars

MonitorUpdateBuild ==
    /\ res = "monitor" /\ op = "update" /\ pc = "build"
    /\ \E d \in Configs, c \in Changes :
         LET parameters == MonitorUpdateParameters(d, c, existing)
         IN  /\ change' = [enabled_log |-> c.enabled_log,
                           enabled_metric |-> c.enabled_metric,
                           metric |-> c.metric /\ ~d.fivePointOh,
                           noLogBlocks |-> d.enabled_log = <<>>,
                           noMetricBlocks |-> d.enabled_metric = <<>>]
             /\ IF parameters.err # ""
                THEN Return(parameters.err) /\ UNCHANGED payload
                ELSE /\ payload' = [kind |-> "setting", Logs |-> parameters.Logs,
                                    Metrics |-> parameters.Metrics]
                     /\ pc' = "write"
                     /\ UNCHANGED result
    /\ UNCHANGED <<res, remote, id, op, got, writes, existing, obs, cnt, idSet,
                   waited, deleted, stage>>
    /\ UNCHANGED idVars

MonitorUpdateWrite ==
    /\ res = "monitor" /\ op = "update" /\ pc = "write"
    /\ writes' = Append(writes, payload)
    /\ payload' = NoPayload
    /\ \E ok \in BOOLEAN :
         IF ok THEN pc' = "read" /\ UNCHANGED result ELSE Return("updating")
    /\ UNCHANGED <<res, remote, id, op, got, existing, change, obs, cnt, idSet,
                   waited, deleted, stage>>
    /\ UNCHANGED idVars

\* mutant: a 404 answer to the delete call is an error like any other
MonitorDeleteRequestStrict ==
    /\ res = "monitor" /\ op = "delete" /\ pc = "delete"
    /\ deleted' = deleted + 1
    /\ \E resp \in {RespFound, RespFailed} \cup
                     (IF remote = "present" THEN {} ELSE {RespNotFound}) :
         /\ got' = resp
         /\ IF resp.err
            THEN Return("deleting") /\ UNCHANGED remote
            ELSE /\ pc' = "wait"
                 /\ remote' = IF resp.err \/ remote = "absent" THEN remote
                               ELSE "vanishing"
                 /\ UNCHANGED result
    /\ UNCHANGED <<res, id, op, writes, payload, existing, change, obs, cnt, idSet,
                   waited, stage>>
    /\ UNCHANGED idVars

\* client.Delete: a 404 answer is not an error of the handler
MonitorDeleteRequest ==
    /\ res = "monitor" /\ op = "delete" /\ pc = "delete"
    /\ deleted' = deleted + 1
    /\ \E resp \in {RespFound, RespFailed} \cup
                     (IF remote = "present" THEN {} ELSE {RespNotFound}) :
         /\ got' = resp
         /\ IF resp.err /\ ~WasNotFound(resp)
            THEN Return("deleting") /\ UNCHANGED remote
            ELSE /\ pc' = "wait"
                 /\ remote' = IF resp.err \/ remote = "absent" THEN remote
                               ELSE "vanishing"
                 /\ UNCHANGED result
    /\ UNCHANGED <<res, id, op, writes, payload, existing, change, obs, cnt, idSet,
                   waited, stage>>
    /\ UNCHANGED idVars

(***************************************************************************)
(* azurerm_servicebus_namespace                                            *)
(***************************************************************************)
SkuNamePremium == "Premium"

\* the schema's values of sku, capacity and premium_messaging_partitions
SkuNames == {"Basic", "Standard", "Premium"}
Capacities == {0, 1, 2, 4, 8, 16}
Partitions == {0, 1, 2, 4}

\* identity blocks: none, or a type with or without identity_ids
IdentityBlocks ==
    {<<>>} \cup
    {<<b>> : b \in [type : {"SystemAssigned", "UserAssigned",
                           "SystemAssigned, UserAssigned"},
                    identity_ids : {{}, {"uai"}}]}

\* network_rule_set blocks: none, or a default action with or without rules
NetworkRuleSets ==
    {<<>>} \cup {<<b>> : b \in [default_action : {"Allow", "Deny"}, rules : BOOLEAN]}

ToLower(str) ==
    CASE str = "Basic" -> "basic"
      [] str = "Standard" -> "standard"
      [] str = "Premium" -> "premium"
      [] OTHER -> str

EqualFold(a, b) == ToLower(a) = ToLower(b)

expandSystemAndUserAssignedMap(input) ==
    LET type == IF Len(input) > 0 THEN input[1].type ELSE "None"
        ids == IF Len(input) > 0 THEN input[1].identity_ids ELSE {}
    IN  IF ids # {} /\ type \notin {"SystemAssigned, UserAssigned", "UserAssigned"}
        THEN [err |-> "expanding identity", Type |-> "None", IdentityIds |-> {}]
        ELSE [err |-> "", Type |-> type, IdentityIds |-> ids]

\* mutant: premium_messaging_partitions is not checked against the SKU
ServiceBusCreateParametersUnchecked(sku, capacity, partitions, identity) ==
    LET expanded == expandSystemAndUserAssignedMap(identity)
        premium == EqualFold(sku, SkuNamePremium)
    IN  IF expanded.err # "" THEN [err |-> expanded.err]
        ELSE IF ~premium /\ capacity > 0
        THEN [err |-> "only supports capacity of 0"]
        ELSE IF premium /\ capacity = 0
        THEN [err |-> "only supports capacity of 1, 2, 4, 8 or 16"]
        ELSE [err |-> "", kind |-> "namespace",
              Sku |-> [Name |-> sku, Tier |-> sku, Capacity |-> capacity],
              PremiumMessagingPartitions |-> partitions,
              Identity |-> [Type |-> expanded.Type, IdentityIds |-> expanded.IdentityIds]]

\* resourceServiceBusNamespaceCreate, from the configuration to the
\* parameters of CreateOrUpdateThenPoll (or the error returned before it)
ServiceBusCreateParameters(sku, capacity, partitions, identity) ==
    LET expanded == expandSystemAndUserAssignedMap(identity)
        premium == EqualFold(sku, SkuNamePremium)
    IN  IF expanded.err # "" THEN [err |-> expanded.err]
        ELSE IF ~premium /\ capacity > 0
        THEN [err |-> "only supports capacity of 0"]
        ELSE IF premium /\ capacity = 0
        THEN [err |-> "only supports capacity of 1, 2, 4, 8 or 16"]
        ELSE IF ~premium /\ partitions > 0
        THEN [err |-> "premium messaging partition is not supported"]
        ELSE IF premium /\ partitions = 0
        THEN [err |-> "only supports premium_messaging_partitions of 1, 2, 4"]
        ELSE [err |-> "", kind |-> "namespace",
              Sku |-> [Name |-> sku, Tier |-> sku, Capacity |-> capacity],
              PremiumMessagingPartitions |-> partitions,
              Identity |-> [Type |-> expanded.Type, IdentityIds |-> expanded.IdentityIds]]

\* createNetworkRuleSetForNamespace: "none" (nothing to write), an error, or
\* "write"
createNetworkRuleSetForNamespace(input) ==
    IF Len(input) < 1 THEN "none"
    ELSE IF input[1].default_action = "Deny" /\ ~input[1].rules THEN "error"
    ELSE "write"

ServiceBusCreateExists ==
    /\ res = "servicebus" /\ op = "create" /\ pc = "exists"
    /\ \E resp \in GetResponses(remote) :
         LET verdict == ServiceBusExistsCheck(resp)
         IN  /\ got' = resp
             /\ IF verdict = "proceed"
                THEN pc' = "build" /\ UNCHANGED result
                ELSE Return(verdict)
    /\ UNCHANGED <<res, remote, id, op, writes, payload, existing, change, obs, cnt,
                   idSet, waited, deleted, stage>>
    /\ UNCHANGED idVars

ServiceBusCreateBuild ==
    /\ res = "servicebus" /\ op = "create" /\ pc = "build"
    /\ \E sku \in SkuNames, capacity \in Capacities, partitions \in Partitions,
          identity \in IdentityBlocks :
         LET parameters == ServiceBusCreateParameters(sku, capacity, partitions, identity)
         IN  /\ change' = [sku |-> sku, capacity |-> capacity,
                           premium_messaging_partitions |-> partitions]
             /\ IF parameters.err # ""
                THEN Return(parameters.err) /\ UNCHANGED payload
                ELSE payload' = parameters /\ pc' = "write" /\ UNCHANGED result
    /\ UNCHANGED <<res, remote, id, op, got, writes, existing, obs, cnt, idSet,
                   waited, deleted, stage>>
    /\ UNCHANGED idVars

\* mutant: the error of CreateOrUpdateThenPoll is dropped
ServiceBusCreateWriteUnchecked ==
    /\ res = "servicebus" /\ op = "create" /\ pc = "write"
    /\ writes' = Append(writes, payload)
    /\ payload' = NoPayload
    /\ \E outcome \in {"request failed", "poll failed", "done"} :
         CASE outcome = "request failed" ->
                pc' = "setid" /\ UNCHANGED <<remote, waited, stage, result>>
           [] outcome = "poll failed" ->
                pc' = "setid" /\ remote' = "appearing" /\ UNCHANGED <<waited, stage, result>>
           [] OTHER ->
                /\ remote' = "present"
                /\ waited' = TRUE
                /\ stage' = Append(stage, "written")
                /\ pc' = "setid"
                /\ UNCHANGED result
    /\ UNCHANGED <<res, id, op, got, existing, change, obs, cnt, idSet, deleted>>
    /\ UNCHANGED idVars

\* client.CreateOrUpdateThenPoll: the request fails, the poll fails, or the
\* operation is polled to its end
ServiceBusCreateWrite ==
    /\ res = "servicebus" /\ op = "create" /\ pc = "write"
    /\ writes' = Append(writes, payload)
    /\ payload' = NoPayload
    /\ \E outcome \in {"request failed", "poll failed", "done"} :
         CASE outcome = "request failed" ->
                Return("creating") /\ UNCHANGED <<remote, waited, stage>>
           [] outcome = "poll failed" ->
                Return("creating") /\ remote' = "appearing" /\ UNCHANGED <<waited, stage>>
           [] OTHER ->
                /\ remote' = "present"
                /\ waited' = TRUE
                /\ stage' = Append(stage, "written")
                /\ pc' = "setid"
                /\ UNCHANGED result
    /\ UNCHANGED <<res, id, op, got, existing, change, obs, cnt, idSet, deleted>>
    /\ UNCHANGED idVars

ServiceBusCreateSetId ==
    /\ res = "servicebus" /\ op = "create" /\ pc = "setid"
    /\ id' = ResourceId
    /\ idSet' = TRUE
    /\ stage' = Append(stage, "setid")
    /\ pc' = "rules"
    /\ UNCHANGED <<res, remote, op, result, got, writes, payload, existing, change,
                   obs, cnt, waited, deleted>>
    /\ UNCHANGED idVars

ServiceBusCreateRules ==
    /\ res = "servicebus" /\ op = "create" /\ pc = "rules"
    /\ \E input \in NetworkRuleSets, ok \in BOOLEAN :
         LET verdict == createNetworkRuleSetForNamespace(input)
         IN  CASE verdict = "none" ->
                    /\ stage' = Append(stage, "rules")
                    /\ pc' = "read"
                    /\ UNCHANGED <<result, writes>>
               [] verdict = "error" ->
                    Return("network rule set") /\ UNCHANGED <<writes, stage>>
               [] OTHER ->
                    /\ writes' = Append(writes, [kind |-> "networkRuleSet"])
                    /\ IF ok
                       THEN /\ stage' = Append(stage, "rules")
                            /\ pc' = "read"
                            /\ UNCHANGED result
                       ELSE Return("network rule set") /\ UNCHANGED stage
    /\ UNCHANGED <<res, remote, id, op, got, payload, existing, change, obs, cnt,
                   idSet, waited, deleted>>
    /\ UNCHANGED idVars

\* resourceServiceBusNamespaceRead, also the tail of Create: after the Get,
\* flattening the identity or GetNetworkRuleSet can fail
ServiceBusRead ==
    /\ res = "servicebus" /\ pc = "read"
    /\ stage' = Append(stage, "read")
    /\ \E resp \in GetResponses(remote),
          tail \in {"ok", "flattening identity", "retrieving network rule set"} :
         /\ got' = IF op = "read" THEN resp ELSE got
         /\ IF resp.err
            THEN IF WasNotFound(resp)
                 THEN id' = "" /\ Return("ok")
                 ELSE Return("retrieving") /\ UNCHANGED id
            ELSE Return(tail) /\ UNCHANGED id
    /\ UNCHANGED <<res, remote, op, writes, payload, existing, change, obs, cnt,
                   idSet, waited, deleted>>
    /\ UNCHANGED idVars

\* the attributes resourceServiceBusNamespaceUpdate tests with HasChange
NamespaceAttributes ==
    {"identity", "public_network_access_enabled", "sku", "customer_managed_key",
     "local_auth_enabled", "tags", "minimum_tls_version", "capacity"}

\* the SKUs a Get returns: a nil capacity is <<>>
NamespaceSkus ==
    {[Name |-> "Basic", Tier |-> "Basic", Capacity |-> <<>>],
     [Name |-> "Standard", Tier |-> "Standard", Capacity |-> <<>>],
     [Name |-> "Standard", Tier |-> "Standard", Capacity |-> <<0>>],
     [Name |-> "Premium", Tier |-> "Premium", Capacity |-> <<1>>]}

\* the models a Get returns with Properties
NamespaceModels ==
    [Identity : {[Type |-> "None", IdentityIds |-> {}],
                 [Type |-> "SystemAssigned", IdentityIds |-> {}]},
     Sku : NamespaceSkus,
     PublicNetworkAccess : {"Enabled", "Disabled"},
     Encryption : {"remote"},
     DisableLocalAuth : {FALSE},
     Tags : {"remote"},
     MinimumTlsVersion : {"1.2"}]

\* the sets of at most MaxChanges attributes out of S
ChangesOf(S) == {c \in SUBSET S : Cardinality(c) <= MaxChanges}

\* the configurations an Update can see with the changes c of the model e:
\* an attribute without a change has the value of the last Read, and a
\* change of the SKU from or to Premium forces a new resource instead
NamespaceConfigs(c, e) ==
    {d \in [identity : IdentityBlocks, public_network_access_enabled : BOOLEAN,
            sku : SkuNames, capacity : Capacities] :
        /\ "identity" \notin c => d.identity = <<>>
        /\ "public_network_access_enabled" \notin c => d.public_network_access_enabled
        /\ "capacity" \notin c => d.capacity = 0
        /\ IF "sku" \in c
           THEN /\ d.sku # e.Sku.Name
                /\ ~EqualFold(d.sku, SkuNamePremium)
                /\ ~EqualFold(e.Sku.Name, SkuNamePremium)
           ELSE d.sku = e.Sku.Name}

\* mutant: a changed sku overwrites the name and the tier of the SKU
ServiceBusUpdateParametersKeepingSku(d, c, e) ==
    LET expanded == expandSystemAndUserAssignedMap(d.identity)
        premium == EqualFold(d.sku, SkuNamePremium)
        identity == IF "identity" \in c
                    THEN [Type |-> expanded.Type, IdentityIds |-> expanded.IdentityIds]
                    ELSE e.Identity
        sku == IF "sku" \in c
               THEN [e.Sku EXCEPT !.Name = d.sku, !.Tier = d.sku]
               ELSE e.Sku
    IN  IF "identity" \in c /\ expanded.err # "" THEN [err |-> "expanding identity"]
        ELSE IF "capacity" \in c /\ ~premium /\ d.capacity > 0
        THEN [err |-> "only supports capacity of 0"]
        ELSE IF "capacity" \in c /\ premium /\ d.capacity = 0
        THEN [err |-> "only supports capacity of 1, 2, 4, 8 or 16"]
        ELSE [err |-> "",
              Model |->
                [Identity |-> identity,
                 Sku |-> IF "capacity" \in c
                         THEN [sku EXCEPT !.Capacity = <<d.capacity>>] ELSE sku,
                 PublicNetworkAccess |->
                     IF "public_network_access_enabled" \in c
                     THEN IF d.public_network_access_enabled THEN "Enabled"
                          ELSE "Disabled"
                     ELSE e.PublicNetworkAccess,
                 Encryption |-> IF "customer_managed_key" \in c THEN "configured"
                                ELSE e.Encryption,
                 DisableLocalAuth |-> IF "local_auth_enabled" \in c THEN TRUE
                                      ELSE e.DisableLocalAuth,
                 Tags |-> IF "tags" \in c THEN "configured" ELSE e.Tags,
                 MinimumTlsVersion |-> IF "minimum_tls_version" \in c THEN "1.1"
                                       ELSE e.MinimumTlsVersion]]

\* resourceServiceBusNamespaceUpdate, from the configuration d, its changed
\* attributes c and the model e returned by Get to the payload of
\* CreateOrUpdateThenPoll: a changed sku puts a new SBSku of the name and the
\* tier in the place of the SKU, with no capacity
ServiceBusUpdateParameters(d, c, e) ==
    LET expanded == expandSystemAndUserAssignedMap(d.identity)
        premium == EqualFold(d.sku, SkuNamePremium)
        identity == IF "identity" \in c
                    THEN [Type |-> expanded.Type, IdentityIds |-> expanded.IdentityIds]
                    ELSE e.Identity
        sku == IF "sku" \in c
               THEN [Name |-> d.sku, Tier |-> d.sku, Capacity |-> <<>>]
               ELSE e.Sku
    IN  IF "identity" \in c /\ expanded.err # "" THEN [err |-> "expanding identity"]
        ELSE IF "capacity" \in c /\ ~premium /\ d.capacity > 0
        THEN [err |-> "only supports capacity of 0"]
        ELSE IF "capacity" \in c /\ premium /\ d.capacity = 0
        THEN [err |-> "only supports capacity of 1, 2, 4, 8 or 16"]
        ELSE [err |-> "",
              Model |->
                [Identity |-> identity,
                 Sku |-> IF "capacity" \in c
                         THEN [sku EXCEPT !.Capacity = <<d.capacity>>] ELSE sku,
                 PublicNetworkAccess |->
                     IF "public_network_access_enabled" \in c
                     THEN IF d.public_network_access_enabled THEN "Enabled"
                          ELSE "Disabled"
                     ELSE e.PublicNetworkAccess,
                 Encryption |-> IF "customer_managed_key" \in c THEN "configured"
                                ELSE e.Encryption,
                 DisableLocalAuth |-> IF "local_auth_enabled" \in c THEN TRUE
                                      ELSE e.DisableLocalAuth,
                 Tags |-> IF "tags" \in c THEN "configured" ELSE e.Tags,
                 MinimumTlsVersion |-> IF "minimum_tls_version" \in c THEN "1.1"
                                       ELSE e.MinimumTlsVersion]]

\* Update: client.Get, and the two nil checks on its model
ServiceBusUpdateGet ==
    /\ res = "servicebus" /\ op = "update" /\ pc = "get"
    /\ \E resp \in GetResponses(remote), model \in NamespaceModels, nil \in BOOLEAN :
         /\ got' = resp
         /\ IF resp.err
            THEN Return("retrieving") /\ UNCHANGED existing
            ELSE IF nil
            THEN Return("model was nil") /\ UNCHANGED existing
            ELSE existing' = model /\ pc' = "build" /\ UNCHANGED result
    /\ UNCHANGED <<res, remote, id, op, writes, payload, change, obs, cnt, idSet,
                   waited, deleted, stage>>
    /\ UNCHANGED idVars

ServiceBusUpdateBuild ==
    /\ res = "servicebus" /\ op = "update" /\ pc = "build"
    /\ \E c \in ChangesOf(NamespaceAttributes) : \E d \in NamespaceConfigs(c, existing) :
         LET parameters == ServiceBusUpdateParameters(d, c, existing)
         IN  /\ change' = [has |-> c, sku |-> d.sku, capacity |-> d.capacity]
             /\ IF parameters.err # ""
                THEN Return(parameters.err) /\ UNCHANGED payload
                ELSE /\ payload' = [kind |-> "namespace", Model |-> parameters.Model]
                     /\ pc' = "write"
                     /\ UNCHANGED result
    /\ UNCHANGED <<res, remote, id, op, got, writes, existing, obs, cnt, idSet,
                   waited, deleted, stage>>
    /\ UNCHANGED idVars

\* Update: client.CreateOrUpdateThenPoll, then d.SetId of the same ID
ServiceBusUpdateWrite ==
    /\ res = "servicebus" /\ op = "update" /\ pc = "write"
    /\ writes' = Append(writes, payload)
    /\ payload' = NoPayload
    /\ \E ok \in BOOLEAN :
         IF ok
         THEN pc' = "rules" /\ stage' = Append(stage, "written") /\ UNCHANGED result
         ELSE Return("updating") /\ UNCHANGED stage
    /\ UNCHANGED <<res, remote, id, op, got, existing, change, obs, cnt, idSet,
                   waited, deleted>>
    /\ UNCHANGED idVars

\* Update: a changed network_rule_set is reset or written, then the Read
ServiceBusUpdateRules ==
    /\ res = "servicebus" /\ op = "update" /\ pc = "rules"
    /\ \E changed \in BOOLEAN, ok \in BOOLEAN :
         IF changed /\ ~ok
         THEN Return("network rule set") /\ UNCHANGED <<writes, stage>>
         ELSE /\ writes' = IF changed THEN Append(writes, [kind |-> "networkRuleSet"])
                           ELSE writes
              /\ stage' = Append(stage, "rules")
              /\ pc' = "read"
              /\ UNCHANGED result
    /\ UNCHANGED <<res, remote, id, op, got, payload, existing, change, obs, cnt,
                   idSet, waited, deleted>>
    /\ UNCHANGED idVars

\* mutant: the error of the wait is dropped
ServiceBusDeleteWaitReadyUnchecked ==
    /\ res = "servicebus" /\ op = "delete" /\ pc = "delete"
    /\ \E ok \in BOOLEAN :
         IF ok
         THEN stage' = Append(stage, "ready") /\ pc' = "request" /\ UNCHANGED result
         ELSE pc' = "request" /\ UNCHANGED <<stage, result>>
    /\ UNCHANGED <<res, remote, id, op, got, writes, payload, existing, change, obs,
                   cnt, idSet, waited, deleted>>
    /\ UNCHANGED idVars

\* waitForNamespaceStatusToBeReady
ServiceBusDeleteWaitReady ==
    /\ res = "servicebus" /\ op = "delete" /\ pc = "delete"
    /\ \E ok \in BOOLEAN :
         IF ok
         THEN stage' = Append(stage, "ready") /\ pc' = "request" /\ UNCHANGED result
         ELSE Return("waiting") /\ UNCHANGED stage
    /\ UNCHANGED <<res, remote, id, op, got, writes, payload, existing, change, obs,
                   cnt, idSet, waited, deleted>>
    /\ UNCHANGED idVars

\* client.DeleteThenPoll
ServiceBusDeleteRequest ==
    /\ res = "servicebus" /\ op = "delete" /\ pc = "request"
    /\ deleted' = deleted + 1
    /\ \E outcome \in {"request failed", "poll failed", "done"} :
         CASE outcome = "request failed" ->
                Return("deleting") /\ UNCHANGED <<remote, waited, stage>>
           [] outcome = "poll failed" ->
                /\ Return("deleting")
                /\ remote' = IF remote = "absent" THEN remote ELSE "vanishing"
                /\ UNCHANGED <<waited, stage>>
           [] OTHER ->
                /\ remote' = "absent"
                /\ waited' = TRUE
                /\ stage' = Append(stage, "deleted")
                /\ Return("ok")
    /\ UNCHANGED <<res, id, op, got, writes, payload, existing, change, obs, cnt,
                   idSet>>
    /\ UNCHANGED idVars

(***************************************************************************)
(* azurerm_service_plan                                                    *)
(***************************************************************************)
\* some of the known SKUs, and those whose name starts with "I" (Isolated)
PlanSkus == {"B1", "P1v3", "EP1", "I1v2", "Y1"}
IsolatedSkus == {"I1v2"}

\* helpers.PlanIsPremium, PlanSupportsScaleOut (the Elastic Premium SKUs) and
\* PlanSupportsZoneBalancing
PlanIsPremium(sku) == sku \in {"P1v3"}
PlanSupportsScaleOut(sku) == sku \in {"EP1"}
PlanSupportsZoneBalancing(sku) == sku \in {"P1v3", "EP1", "I1v2"}

\* the values of maximum_elastic_worker_count and worker_count in a diff
ElasticWorkerCounts == {0, 1, 3}
WorkerCounts == {1, 2}

\* the diffs CustomizeDiff can be given: an attribute without a change has
\* its old value as its new value
PlanDiffs ==
    [sku_name : PlanSkus,
     autoScaleChanged : BOOLEAN, newAutoScaleEnabled : BOOLEAN,
     ecChanged : BOOLEAN, newEcValue : ElasticWorkerCounts,
     oldZone : BOOLEAN, newZone : BOOLEAN, worker_count : WorkerCounts]

\* ServicePlanResource.CustomizeDiff: the error it returns ("" for none) and
\* whether it forces a new resource
ServicePlanCustomizeDiff(rd) ==
    IF rd.autoScaleChanged /\ ~PlanIsPremium(rd.sku_name) /\ rd.newAutoScaleEnabled
    THEN [err |-> "premium_plan_auto_scale_enabled", forceNew |-> FALSE]
    ELSE IF /\ rd.ecChanged /\ rd.newEcValue > 1
            /\ ~PlanSupportsScaleOut(rd.sku_name) /\ PlanIsPremium(rd.sku_name)
            /\ ~rd.newAutoScaleEnabled
    THEN [err |-> "maximum_elastic_worker_count", forceNew |-> FALSE]
    ELSE IF rd.newZone /\ ~PlanSupportsZoneBalancing(rd.sku_name)
    THEN [err |-> "zone_balancing_enabled", forceNew |-> FALSE]
    ELSE [err |-> "",
          forceNew |-> rd.oldZone # rd.newZone /\ ~rd.oldZone /\ rd.newZone
                         /\ rd.worker_count < 2]

ServicePlanCreateParameters(sku, ase, workerCount) ==
    IF ase # "" /\ sku \notin IsolatedSkus
    THEN [err |-> "can only be used with Isolated SKUs"]
    ELSE [err |-> "", kind |-> "plan",
          Sku |-> [Name |-> sku, Capacity |-> workerCount],
          HostingEnvironmentProfile |-> ase]

ServicePlanCreateExists ==
    /\ res = "serviceplan" /\ op = "create" /\ pc = "exists"
    /\ \E resp \in GetResponses(remote) :
         LET verdict == ServicePlanExistsCheck(resp)
         IN  /\ got' = resp
             /\ IF verdict = "proceed"
                THEN pc' = "build" /\ UNCHANGED result
                ELSE Return(verdict)
    /\ UNCHANGED <<res, remote, id, op, writes, payload, existing, change, obs, cnt,
                   idSet, waited, deleted, stage>>
    /\ UNCHANGED idVars

ServicePlanCreateBuild ==
    /\ res = "serviceplan" /\ op = "create" /\ pc = "build"
    /\ \E sku \in PlanSkus, ase \in {"", "ase"}, workerCount \in {0, 1, 3} :
         LET parameters == ServicePlanCreateParameters(sku, ase, workerCount)
         IN  IF parameters.err # ""
             THEN Return(parameters.err) /\ UNCHANGED payload
             ELSE payload' = parameters /\ pc' = "write" /\ UNCHANGED result
    /\ UNCHANGED <<res, remote, id, op, got, writes, existing, change, obs, cnt,
                   idSet, waited, deleted, stage>>
    /\ UNCHANGED idVars

\* client.CreateOrUpdateThenPoll
ServicePlanCreateWrite ==
    /\ res = "serviceplan" /\ op = "create" /\ pc = "write"
    /\ writes' = Append(writes, payload)
    /\ payload' = NoPayload
    /\ \E outcome \in {"request failed", "poll failed", "done"} :
         CASE outcome = "request failed" ->
                Return("creating") /\ UNCHANGED <<remote, waited>>
           [] outcome = "poll failed" ->
                Return("creating") /\ remote' = "appearing" /\ UNCHANGED waited
           [] OTHER ->
                remote' = "present" /\ waited' = TRUE /\ pc' = "setid"
                /\ UNCHANGED result
    /\ UNCHANGED <<res, id, op, got, existing, change, obs, cnt, idSet, deleted,
                   stage>>
    /\ UNCHANGED idVars

\* metadata.SetID, then the handler returns nil
ServicePlanCreateSetId ==
    /\ res = "serviceplan" /\ op = "create" /\ pc = "setid"
    /\ id' = ResourceId
    /\ idSet' = TRUE
    /\ Return("ok")
    /\ UNCHANGED <<res, remote, op, got, writes, payload, existing, change, obs, cnt,
                   waited, deleted, stage>>
    /\ UNCHANGED idVars

\* CustomizeDiff runs on a plan, between two handlers
ServicePlanDiff ==
    /\ res = "serviceplan" /\ op = "none"
    /\ \E rd \in PlanDiffs :
         /\ change' = rd
         /\ payload' = ServicePlanCustomizeDiff(rd)
         /\ result' = IF payload'.err = "" THEN "ok" ELSE "diff"
    /\ op' = "diff"
    /\ pc' = "done"
    /\ got' = RespNone
    /\ writes' = <<>>
    /\ existing' = NilModel
    /\ obs' = <<>>
    /\ cnt' = 0
    /\ idSet' = FALSE
    /\ waited' = FALSE
    /\ deleted' = 0
    /\ stage' = <<>>
    /\ UNCHANGED <<res, remote, id>>
    /\ UNCHANGED idVars

\* mutant: a 404 is returned as an error and the resource stays in state
ServicePlanReadKeepsGone ==
    /\ res = "serviceplan" /\ op = "read" /\ pc = "read"
    /\ \E resp \in GetResponses(remote) :
         /\ got' = resp
         /\ Return(IF resp.err THEN "retrieving" ELSE "ok")
    /\ UNCHANGED <<res, remote, id, op, writes, payload, existing, change, obs, cnt,
                   idSet, waited, deleted, stage>>
    /\ UNCHANGED idVars

\* Read: metadata.MarkAsGone removes the resource from state and returns nil
ServicePlanRead ==
    /\ res = "serviceplan" /\ op = "read" /\ pc = "read"
    /\ \E resp \in GetResponses(remote) :
         /\ got' = resp
         /\ IF resp.err
            THEN IF WasNotFound(resp)
                 THEN id' = "" /\ Return("ok")
                 ELSE Return("retrieving") /\ UNCHANGED id
            ELSE Return("ok") /\ UNCHANGED id
    /\ UNCHANGED <<res, remote, op, writes, payload, existing, change, obs, cnt,
                   idSet, waited, deleted, stage>>
    /\ UNCHANGED idVars

\* the attributes ServicePlanResource.Update tests with HasChange
PlanAttributes ==
    {"per_site_scaling_enabled", "sku_name", "tags", "worker_count",
     "premium_plan_auto_scale_enabled", "maximum_elastic_worker_count",
     "zone_balancing_enabled"}

\* the models a Get returns
PlanModels ==
    [Sku : [Name : {"B1", "P1v3"}, Capacity : WorkerCounts],
     PerSiteScaling : BOOLEAN,
     ElasticScaleEnabled : BOOLEAN,
     MaximumElasticWorkerCount : {1},
     ZoneRedundant : {FALSE},
     Tags : {"remote"}]

\* the decoded state an Update can see with the changes c: the value of an
\* attribute without a change is not read
PlanStates(c) ==
    {d \in [per_site_scaling_enabled : BOOLEAN, sku_name : PlanSkus,
            worker_count : WorkerCounts, premium_plan_auto_scale_enabled : BOOLEAN,
            maximum_elastic_worker_count : ElasticWorkerCounts,
            zone_balancing_enabled : BOOLEAN] :
        /\ "per_site_scaling_enabled" \notin c => ~d.per_site_scaling_enabled
        /\ "sku_name" \notin c => d.sku_name = "B1"
        /\ "worker_count" \notin c => d.worker_count = 1
        /\ "premium_plan_auto_scale_enabled" \notin c => ~d.premium_plan_auto_scale_enabled
        /\ "maximum_elastic_worker_count" \notin c => d.maximum_elastic_worker_count = 0
        /\ "zone_balancing_enabled" \notin c => ~d.zone_balancing_enabled}

\* mutant: every field of the model is written from the state
ServicePlanUpdateModelOfState(state, c, e) ==
    [Sku |-> [Name |-> state.sku_name, Capacity |-> state.worker_count],
     PerSiteScaling |-> state.per_site_scaling_enabled,
     ElasticScaleEnabled |-> state.premium_plan_auto_scale_enabled,
     MaximumElasticWorkerCount |-> state.maximum_elastic_worker_count,
     ZoneRedundant |-> state.zone_balancing_enabled,
     Tags |-> IF "tags" \in c THEN "configured" ELSE e.Tags]

\* ServicePlanResource.Update, from the decoded state, the changed attributes
\* c and the model e returned by Get to the model of CreateOrUpdateThenPoll
ServicePlanUpdateModel(state, c, e) ==
    [Sku |-> [Name |-> IF "sku_name" \in c THEN state.sku_name ELSE e.Sku.Name,
              Capacity |-> IF "worker_count" \in c THEN state.worker_count
                           ELSE e.Sku.Capacity],
     PerSiteScaling |-> IF "per_site_scaling_enabled" \in c
                        THEN state.per_site_scaling_enabled ELSE e.PerSiteScaling,
     ElasticScaleEnabled |-> IF "premium_plan_auto_scale_enabled" \in c
                             THEN state.premium_plan_auto_scale_enabled
                             ELSE e.ElasticScaleEnabled,
     MaximumElasticWorkerCount |-> IF "maximum_elastic_worker_count" \in c
                                   THEN state.maximum_elastic_worker_count
                                   ELSE e.MaximumElasticWorkerCount,
     ZoneRedundant |-> IF "zone_balancing_enabled" \in c
                       THEN state.zone_balancing_enabled ELSE e.ZoneRedundant,
     Tags |-> IF "tags" \in c THEN "configured" ELSE e.Tags]

\* Update: client.Get; the model of the answer is read without a nil check
ServicePlanUpdateGet ==
    /\ res = "serviceplan" /\ op = "update" /\ pc = "get"
    /\ \E resp \in GetResponses(remote), model \in PlanModels, nil \in BOOLEAN :
         /\ got' = resp
         /\ IF resp.err
            THEN Return("retrieving") /\ UNCHANGED existing
            ELSE IF nil
            THEN Return("panic") /\ UNCHANGED existing
            ELSE existing' = model /\ pc' = "build" /\ UNCHANGED result
    /\ UNCHANGED <<res, remote, id, op, writes, payload, change, obs, cnt, idSet,
                   waited, deleted, stage>>
    /\ UNCHANGED idVars

ServicePlanUpdateBuild ==
    /\ res = "serviceplan" /\ op = "update" /\ pc = "build"
    /\ \E c \in ChangesOf(PlanAttributes) : \E state \in PlanStates(c) :
         /\ change' = [has |-> c, state |-> state]
         /\ payload' = [kind |-> "plan", Model |-> ServicePlanUpdateModel(state, c, existing)]
    /\ pc' = "write"
    /\ UNCHANGED <<res, remote, id, op, result, got, writes, existing, obs, cnt, idSet,
                   waited, deleted, stage>>
    /\ UNCHANGED idVars

\* Update: client.CreateOrUpdateThenPoll, and no Read after it
ServicePlanUpdateWrite ==
    /\ res = "serviceplan" /\ op = "update" /\ pc = "write"
    /\ writes' = Append(writes, payload)
    /\ payload' = NoPayload
    /\ \E ok \in BOOLEAN : Return(IF ok THEN "ok" ELSE "updating")
    /\ UNCHANGED <<res, remote, id, op, got, existing, change, obs, cnt, idSet,
                   waited, deleted, stage>>
    /\ UNCHANGED idVars

\* Delete: client.Delete, a single request that is not polled; when it is
\* answered without error the plan is gone or about to be
ServicePlanDeleteRequest ==
    /\ res = "serviceplan" /\ op = "delete" /\ pc = "delete"
    /\ deleted' = deleted + 1
    /\ \E ok \in BOOLEAN, gone \in BOOLEAN :
         IF ok
         THEN /\ remote' = IF gone \/ remote = "absent" THEN "absent" ELSE "vanishing"
              /\ Return("ok")
         ELSE Return("deleting") /\ UNCHANGED remote
    /\ UNCHANGED <<res, id, op, got, writes, payload, existing, change, obs, cnt,
                   idSet, waited, stage>>
    /\ UNCHANGED idVars

(***************************************************************************)
(* Generated resource ID types.  A string is the sequence of its pieces:   *)
(* "/" and pieces of text that hold no "/".  The fixed segments are single *)
(* pieces; a name is any sequence of the pieces of NameChars.              *)
(***************************************************************************)
MaxNameLen == 2

NameChars == {"a", "/"}

IdTypes ==
    {[type |-> "ServerDNSAlias", namespace |-> "Microsoft.Sql",
      parent |-> "servers", child |-> "dnsAliases"],
     [type |-> "BotChannel", namespace |-> "Microsoft.BotService",
      parent |-> "botServices", child |-> "channels"],
     [type |-> "SpringCloudConfigurationService", namespace |-> "Microsoft.AppPlatform",
      parent |-> "spring", child |-> "configurationServices"]}

\* the ID types whose formatter and parser are exercised
ParsedTypes == {t \in IdTypes : t.type \in {"ServerDNSAlias", "BotChannel"}}

\* the ID type whose validator is exercised
ValidatedTypes == {t \in IdTypes : t.type = "SpringCloudConfigurationService"}

Names == {n \in ListsOf(NameChars, MaxNameLen) : n # <<>>}

ToUpper(piece) ==
    CASE piece = "subscriptions" -> "SUBSCRIPTIONS"
      [] piece = "resourceGroups" -> "RESOURCEGROUPS"
      [] piece = "providers" -> "PROVIDERS"
      [] piece = "Microsoft.Sql" -> "MICROSOFT.SQL"
      [] piece = "servers" -> "SERVERS"
      [] piece = "dnsAliases" -> "DNSALIASES"
      [] piece = "Microsoft.BotService" -> "MICROSOFT.BOTSERVICE"
      [] piece = "botServices" -> "BOTSERVICES"
      [] piece = "channels" -> "CHANNELS"
      [] piece = "Microsoft.AppPlatform" -> "MICROSOFT.APPPLATFORM"
      [] piece = "spring" -> "SPRING"
      [] piece = "configurationServices" -> "CONFIGURATIONSERVICES"
      [] piece = "a" -> "A"
      [] OTHER -> piece

UpperCased(str) == [i \in 1..Len(str) |-> ToUpper(str[i])]

\* mutant: the two names are written in each other's place
FormatIDSwapped(t, sub, rg, parent, child) ==
    <<"/", "subscriptions", "/">> \o sub \o <<"/", "resourceGroups", "/">> \o rg
        \o <<"/", "providers", "/", t.namespace, "/", t.parent, "/">> \o child
        \o <<"/", t.child, "/">> \o parent

\* New...ID(subscriptionId, resourceGroup, parent, child).ID(): fmt.Sprintf of
\* "/subscriptions/%s/resourceGroups/%s/providers/<ns>/<parent>/%s/<child>/%s"
FormatID(t, sub, rg, parent, child) ==
    <<"/", "subscriptions", "/">> \o sub \o <<"/", "resourceGroups", "/">> \o rg
        \o <<"/", "providers", "/", t.namespace, "/", t.parent, "/">> \o parent
        \o <<"/", t.child, "/">> \o child

TrimPrefix(str) == IF Len(str) > 0 /\ str[1] = "/" THEN Tail(str) ELSE str

TrimSuffix(str) ==
    IF Len(str) > 0 /\ str[Len(str)] = "/" THEN SubSeq(str, 1, Len(str) - 1) ELSE str

\* strings.Split(str, "/")
RECURSIVE Split(_)
Split(str) ==
    IF \A i \in 1..Len(str) : str[i] # "/" THEN <<str>>
    ELSE LET k == CHOOSE i \in 1..Len(str) :
                      str[i] = "/" /\ \A j \in 1..(i - 1) : str[j] # "/"
         IN  <<SubSeq(str, 1, k - 1)>> \o Split(SubSeq(str, k + 1, Len(str)))

ParseError == [err |-> TRUE]

\* the key/value pairs of the path: the subscription and the resource group,
\* then one segment popped per key of names, and no segment left over
ParsePath(t, input, names) ==
    LET components == Split(TrimSuffix(TrimPrefix(input)))
        n == Len(components) \div 2
        key(i) == components[2 * i - 1]
        value(i) == components[2 * i]
        firstOf(k) == {i \in 1..n : key(i) = <<k>> /\ \A j \in 1..(i - 1) : key(j) # <<k>>}
        special == firstOf("subscriptions") \cup firstOf("providers")
        path == (1..n) \ special
        has(k) == \E i \in path : key(i) = <<k>>
        get(k) == value(CHOOSE i \in path :
                            key(i) = <<k>> /\ \A j \in path : key(j) = <<k>> => j <= i)
        wanted == {"resourceGroups"} \cup names
    IN  IF input = <<>> THEN ParseError
        ELSE IF Len(components) % 2 # 0 THEN ParseError
        ELSE IF \E i \in 1..n : key(i) = <<>> \/ value(i) = <<>> THEN ParseError
        ELSE IF firstOf("subscriptions") = {} THEN ParseError
        ELSE IF \E k \in wanted : ~has(k) THEN ParseError
        ELSE IF \E i \in path : \A k \in wanted : key(i) # <<k>> THEN ParseError
        ELSE [err |-> FALSE,
              SubscriptionId |-> value(CHOOSE i \in firstOf("subscriptions") : TRUE),
              ResourceGroup |-> get("resourceGroups"),
              Parent |-> get(t.parent),
              Child |-> IF t.child \in names THEN get(t.child) ELSE <<>>]

\* mutant: the fixed segments are read without regard to case
ParseIDInsensitively(t, input) ==
    LET fixed == {"subscriptions", "resourceGroups", "providers", t.namespace,
                  t.parent, t.child}
        canonical(piece) ==
            IF \E q \in fixed : ToUpper(q) = piece
            THEN CHOOSE q \in fixed : ToUpper(q) = piece
            ELSE piece
    IN  ParsePath(t, [i \in 1..Len(input) |-> canonical(input[i])], {t.parent, t.child})

\* mutant: the segment of the child is not asked for
ParseIDOfParent(t, input) == ParsePath(t, input, {t.parent})

\* the parser of ID type t
ParseID(t, input) == ParsePath(t, input, {t.parent, t.child})

\* the validator of ID type t: the errors it reports for a string input
ValidateID(t, input) ==
    IF ParseID(t, input).err THEN <<"error">> ELSE <<>>

\* an ID built from names without "/"
PlainNames == {n \in Names : \A i \in 1..Len(n) : n[i] # "/"}

ValidIDs(t) ==
    {FormatID(t, sub, rg, parent, child) :
        sub \in PlainNames, rg \in PlainNames, parent \in PlainNames, child \in PlainNames}

\* the empty string and the proper prefixes that end with a "/" or before one
BoundaryPrefixes(str) ==
    LET slashes == {i \in 1..Len(str) : str[i] = "/"}
    IN  {<<>>} \cup {SubSeq(str, 1, k) : k \in slashes}
               \cup {SubSeq(str, 1, k - 1) : k \in slashes}

IdIdle == idIn = <<>> /\ idOut = [fn |-> "none"]

IdInit ==
    /\ IdIdle
    /\ res = "monitor"
    /\ remote = "absent"
    /\ id = ""
    /\ op = "none"
    /\ pc = "idle"
    /\ result = "none"
    /\ got = RespNone
    /\ writes = <<>>
    /\ payload = NoPayload
    /\ existing = NilModel
    /\ change = Idle
    /\ obs = <<>>
    /\ cnt = 0
    /\ idSet = FALSE
    /\ waited = FALSE
    /\ deleted = 0
    /\ stage = <<>>

\* New...ID(...).ID(), then the parser on the result
FormatAndParse ==
    /\ idOut.fn = "none"
    /\ \E t \in ParsedTypes, sub \in Names, rg \in Names, parent \in Names,
          child \in Names :
         /\ idIn' = FormatID(t, sub, rg, parent, child)
         /\ idOut' = [fn |-> "format", type |-> t,
                      given |-> [err |-> FALSE, SubscriptionId |-> sub,
                                 ResourceGroup |-> rg, Parent |-> parent,
                                 Child |-> child],
                      parsed |-> ParseID(t, idIn')]
    /\ UNCHANGED lifeVars

\* the parser on a valid ID, on one cut at a segment boundary, or on a valid
\* ID in upper case
Parse ==
    /\ idOut.fn = "none"
    /\ \E t \in ParsedTypes : \E v \in ValidIDs(t) :
         \E shape \in {"valid", "upper", "prefix"} :
           \E input \in (CASE shape = "valid" -> {v}
                           [] shape = "upper" -> {UpperCased(v)}
                           [] OTHER -> BoundaryPrefixes(v)) :
              /\ idIn' = input
              /\ idOut' = [fn |-> "parse", type |-> t, shape |-> shape,
                           parsed |-> ParseID(t, input)]
    /\ UNCHANGED lifeVars

\* the validator on the same inputs
Validate ==
    /\ idOut.fn = "none"
    /\ \E t \in ValidatedTypes : \E v \in ValidIDs(t) :
         \E shape \in {"valid", "upper", "prefix"} :
           \E input \in (CASE shape = "valid" -> {v}
                           [] shape = "upper" -> {UpperCased(v)}
                           [] OTHER -> BoundaryPrefixes(v)) :
              /\ idIn' = input
              /\ idOut' = [fn |-> "validate", type |-> t, shape |-> shape,
                           errors |-> ValidateID(t, input)]
    /\ UNCHANGED lifeVars

IdNext == FormatAndParse \/ Parse \/ Validate

SpecId == IdInit /\ [][IdNext]_vars

(***************************************************************************)
(* Properties of the resource IDs (checked under SpecId)                   *)
(***************************************************************************)
\* the canonical path of ID type t for four components
CanonicalPath(t, c) ==
    <<<<>>, <<"subscriptions">>, c.SubscriptionId, <<"resourceGroups">>,
      c.ResourceGroup, <<"providers">>, <<t.namespace>>, <<t.parent>>, c.Parent,
      <<t.child>>, c.Child>>

\* C6 as claimed: for ServerDNSAliasId and BotChannelId and any non-empty
\* subscription, resource group, parent name and child name, parsing the
\* formatted ID succeeds and returns the same four components.
C6_RoundTrip ==
    idOut.fn = "format" => idOut.parsed = idOut.given

\* C6 as amended: for ServerDNSAliasId and BotChannelId and any non-empty
\* subscription, resource group, parent name and child name that hold no "/",
\* the formatted ID is the canonical path and parsing it succeeds and
\* returns the same four components.
C6_RoundTripOfPlainNames ==
    (/\ idOut.fn = "format"
     /\ {idOut.given.SubscriptionId, idOut.given.ResourceGroup,
         idOut.given.Parent, idOut.given.Child} \subseteq PlainNames) =>
        /\ Split(idIn) = CanonicalPath(idOut.type, idOut.given)
        /\ idOut.parsed = idOut.given

C6_Witness ==
    /\ idOut.fn = "format" /\ idOut.type.type = "BotChannel"
    /\ idOut.given.SubscriptionId = <<"a", "a">> /\ idOut.given.Child = <<"a">>
    /\ idOut.given.ResourceGroup \in PlainNames /\ idOut.given.Parent \in PlainNames
    /\ idOut.parsed = idOut.given

\* C7: the parsers ServerDNSAliasID and BotChannelID return an error, and the
\* validator SpringCloudConfigurationServiceID reports an error, for the empty
\* string and for every proper prefix of a valid ID cut at a segment boundary;
\* of a valid ID and its cuts only the whole ID is accepted.
C7_PrefixesRejected ==
    /\ (idOut.fn = "parse" /\ idOut.shape = "prefix") => idOut.parsed.err
    /\ (idOut.fn = "validate" /\ idOut.shape = "prefix") => idOut.errors # <<>>
    /\ (idOut.fn = "parse" /\ idOut.shape # "upper" /\ ~idOut.parsed.err) =>
          idOut.shape = "valid" /\ idIn \in ValidIDs(idOut.type)
    /\ (idOut.fn = "validate" /\ idOut.shape # "upper" /\ idOut.errors = <<>>) =>
          idOut.shape = "valid" /\ idIn \in ValidIDs(idOut.type)

C7_Witness ==
    /\ idOut.fn = "parse" /\ idOut.shape = "prefix" /\ idOut.parsed.err
    /\ idOut.type.type = "ServerDNSAlias"
    /\ Split(idIn) = <<<<>>, <<"subscriptions">>, <<"a">>, <<"resourceGroups">>,
                       <<"a">>, <<"providers">>, <<"Microsoft.Sql">>, <<"servers">>,
                       <<"a">>, <<>>>>

\* C8: a valid ID with its segment keys and provider namespace in upper case
\* is rejected by the parsers ServerDNSAliasID and BotChannelID and by the
\* validator SpringCloudConfigurationServiceID, and the ID in canonical case
\* is accepted with no error.
C8_CaseSensitive ==
    /\ (idOut.fn = "parse" /\ idOut.shape = "upper") => idOut.parsed.err
    /\ (idOut.fn = "validate" /\ idOut.shape = "upper") => idOut.errors # <<>>
    /\ (idOut.fn = "parse" /\ idOut.shape = "valid") => ~idOut.parsed.err
    /\ (idOut.fn = "validate" /\ idOut.shape = "valid") => idOut.errors = <<>>

C8_Witness ==
    /\ idOut.fn = "validate" /\ idOut.shape = "upper" /\ idOut.errors # <<>>
    /\ idIn[2] = "SUBSCRIPTIONS" /\ idIn[6] = "RESOURCEGROUPS"

(***************************************************************************)
(* azurerm_cosmosdb_table under its acceptance tests: a test applies a     *)
(* configuration, checks the resource, imports it, and goes on to the next *)
(* step.  remote is the table in Azure, change the applied configuration,  *)
(* payload the Terraform state, got the state of the import, stage the     *)
(* values applied so far.                                                  *)
(***************************************************************************)
\* steps of one test
MaxApplies == 3

TableModes == {"throughput", "autoscale"}

\* the values the tests configure
TableValues(mode) == IF mode = "throughput" THEN {700, 1700} ELSE {4000, 5000}

NoTable == [exists |-> FALSE, mode |-> "none", value |-> 0]

NoTableState == [id |-> "", mode |-> "none", value |-> 0]

\* Create of the table: the table is written with the configured throughput
TableCreate(config) == [exists |-> TRUE, mode |-> config.mode, value |-> config.value]

\* mutant: a throughput is only ever raised
TableUpdateUpwards(state, config, table) ==
    IF config.value > state.value THEN [table EXCEPT !.value = config.value] ELSE table

\* Update of the table: a changed throughput is written
TableUpdate(state, config, table) ==
    IF config.value # state.value THEN [table EXCEPT !.value = config.value] ELSE table

\* Read of the table: the state is what the remote table holds
TableRead(table, tableId) ==
    IF table.exists THEN [id |-> tableId, mode |-> table.mode, value |-> table.value]
    ELSE NoTableState

\* CosmosTableResource.Exists: resp.ID != nil
TableExists(table) == table.exists

TableInit ==
    /\ IdIdle
    /\ res = "table"
    /\ remote = NoTable
    /\ id = ""
    /\ op \in TableModes
    /\ pc = "idle"
    /\ result = "none"
    /\ got = NoTableState
    /\ writes = <<>>
    /\ payload = NoTableState
    /\ existing = NilModel
    /\ change = Idle
    /\ obs = <<>>
    /\ cnt = 0
    /\ idSet = FALSE
    /\ waited = FALSE
    /\ deleted = 0
    /\ stage = <<>>

\* a test step's Config: the apply creates the table or updates it, then
\* reads it back; an apply that fails ends the test
ApplyTable ==
    /\ pc \in {"idle", "imported"}
    /\ Len(stage) < MaxApplies
    /\ \E v \in TableValues(op) : \E ok \in BOOLEAN :
         LET config == [mode |-> op, value |-> v]
             written == IF id = "" THEN TableCreate(config)
                        ELSE TableUpdate(payload, config, remote)
         IN  /\ change' = config
             /\ stage' = Append(stage, v)
             /\ remote' = IF ok THEN written ELSE remote
             /\ id' = IF ok THEN ResourceId ELSE id
             /\ payload' = IF ok THEN TableRead(written, ResourceId) ELSE payload
             /\ result' = IF ok THEN "ok" ELSE "error"
             /\ pc' = IF ok THEN "applied" ELSE "failed"
    /\ obs' = <<>>
    /\ UNCHANGED <<res, op, got, writes, existing, cnt, idSet, waited, deleted>>
    /\ UNCHANGED idVars

\* a test step's Check: ExistsInAzure, and the Key that HasValue
CheckTable ==
    /\ pc = "applied"
    /\ obs' = <<TableExists(remote), payload.value = change.value>>
    /\ pc' = IF obs' = <<TRUE, TRUE>> THEN "checked" ELSE "failed"
    /\ UNCHANGED <<res, remote, id, op, result, got, writes, payload, existing, change,
                   cnt, idSet, waited, deleted, stage>>
    /\ UNCHANGED idVars

\* data.ImportStep(): the resource is imported by its ID and the state of
\* the import is compared with the state of the apply
ImportTable ==
    /\ pc = "checked"
    /\ got' = TableRead(remote, id)
    /\ pc' = IF got' = payload THEN "imported" ELSE "failed"
    /\ UNCHANGED <<res, remote, id, op, result, writes, payload, existing, change, obs,
                   cnt, idSet, waited, deleted, stage>>
    /\ UNCHANGED idVars

TableNext == ApplyTable \/ CheckTable \/ ImportTable

SpecTable == TableInit /\ [][TableNext]_vars

MaxStatusPolls == 3

\* opts of VirtualMachineScaleSetRollingUpgradesStartExtensionUpgrade
VirtualMachineScaleSetRollingUpgradesStartExtensionUpgrade ==
    [HttpMethod |-> "POST", Path |-> "/extensionRollingUpgrade",
     ExpectedStatusCodes |-> {202, 200}]

\* opts of VirtualMachineScaleSetRollingUpgradesCancel
VirtualMachineScaleSetRollingUpgradesCancel ==
    [HttpMethod |-> "POST", Path |-> "/rollingUpgrades/cancel",
     ExpectedStatusCodes |-> {202, 200}]

Operations ==
    {VirtualMachineScaleSetRollingUpgradesStartExtensionUpgrade,
     VirtualMachineScaleSetRollingUpgradesCancel}

\* the status codes the service answers with; 0 is no response at all
StatusCodes == {0, 200, 202, 409, 500}

\* what one poll of the operation finds
PollStatuses == {"InProgress", "Accepted", "Succeeded", "Failed", "error"}

\* the operation response: nothing set yet
NoOperationResponse == [Poller |-> FALSE, HttpResponse |-> 0]

PollInit ==
    /\ IdIdle
    /\ res = "vmss"
    /\ remote = "absent"
    /\ id = ResourceId
    /\ op = "none"
    /\ pc = "idle"
    /\ result = "none"
    /\ got = RespNone
    /\ writes = <<>>
    /\ payload = NoOperationResponse
    /\ existing = NilModel
    /\ change = Idle
    /\ obs = <<>>
    /\ cnt = 0
    /\ idSet = FALSE
    /\ waited = FALSE
    /\ deleted = 0
    /\ stage = <<>>

\* one of the ...ThenPoll methods is called; a call that has returned leaves
\* nothing behind
ThenPoll ==
    /\ pc \in {"idle", "done"}
    /\ \E o \in Operations : change' = o
    /\ op' = "ThenPoll"
    /\ pc' = "NewRequest"
    /\ result' = "none"
    /\ payload' = NoOperationResponse
    /\ writes' = <<>>
    /\ obs' = <<>>
    /\ stage' = <<>>
    /\ UNCHANGED <<res, remote, id, got, existing, cnt, idSet, waited, deleted>>
    /\ UNCHANGED idVars

\* c.Client.NewRequest(ctx, opts): an error is returned at once, and
\* ThenPoll wraps it
NewRequest ==
    /\ res = "vmss" /\ pc = "NewRequest"
    /\ \E err \in BOOLEAN :
         /\ stage' = Append(stage, <<"NewRequest", err>>)
         /\ IF err THEN Return("performing") ELSE pc' = "Execute" /\ UNCHANGED result
    /\ UNCHANGED <<res, remote, id, op, got, writes, payload, existing, change, obs,
                   cnt, idSet, waited, deleted>>
    /\ UNCHANGED idVars

\* req.Execute(ctx): the response, if there is one, is kept in the result;
\* a status that is not expected is an error
Execute ==
    /\ res = "vmss" /\ pc = "Execute"
    /\ \E status \in StatusCodes :
         LET err == status \notin change.ExpectedStatusCodes
         IN  /\ writes' = Append(writes, [HttpMethod |-> change.HttpMethod,
                                          Path |-> change.Path])
             /\ payload' = IF status # 0 THEN [payload EXCEPT !.HttpResponse = status]
                           ELSE payload
             /\ stage' = Append(stage, <<"Execute", err>>)
             /\ IF err THEN Return("performing")
                ELSE pc' = "PollerFromResponse" /\ UNCHANGED result
    /\ UNCHANGED <<res, remote, id, op, got, existing, change, obs, cnt, idSet, waited,
                   deleted>>
    /\ UNCHANGED idVars

\* resourcemanager.PollerFromResponse(resp, c.Client)
PollerFromResponse ==
    /\ res = "vmss" /\ pc = "PollerFromResponse"
    /\ \E err \in BOOLEAN :
         /\ stage' = Append(stage, <<"PollerFromResponse", err>>)
         /\ payload' = [payload EXCEPT !.Poller = ~err]
         /\ IF err THEN Return("performing")
            ELSE pc' = "PollUntilDone" /\ UNCHANGED result
    /\ UNCHANGED <<res, remote, id, op, got, writes, existing, change, obs, cnt, idSet,
                   waited, deleted>>
    /\ UNCHANGED idVars

\* mutant: the error of PollUntilDone is dropped
PollUntilDoneUnchecked(last) == "ok"

\* what ThenPoll returns for a poller that ended on the status last:
\* PollUntilDone's error is wrapped, nil is returned otherwise
PollUntilDoneResult(last) == IF last = "Succeeded" THEN "ok" ELSE "polling"

\* result.Poller.PollUntilDone(ctx), poll by poll: the poller goes on while
\* the operation is in progress
PollUntilDone ==
    /\ res = "vmss" /\ pc = "PollUntilDone"
    /\ \E status \in PollStatuses :
         /\ Len(obs) + 1 >= MaxStatusPolls => status \notin {"InProgress", "Accepted"}
         /\ obs' = Append(obs, status)
         /\ IF status \in {"InProgress", "Accepted"}
            THEN UNCHANGED <<pc, result>>
            ELSE Return(PollUntilDoneResult(status))
    /\ UNCHANGED <<res, remote, id, op, got, writes, payload, existing, change, cnt,
                   idSet, waited, deleted, stage>>
    /\ UNCHANGED idVars

PollNext == ThenPoll \/ NewRequest \/ Execute \/ PollerFromResponse \/ PollUntilDone

SpecPoll == PollInit /\ [][PollNext]_vars

\* C20: a ...ThenPoll method returns nil only if the request succeeded, the
\* poller was made and ran to the end of the operation without an error;
\* no poll is made when the request or the making of the poller failed; and
\* a failure of the request, of the poller's making or of the polling is
\* returned as an error.
C20_ThenPoll ==
    res = "vmss" =>
        LET failed == {i \in 1..Len(stage) : stage[i][2]}
            made == Len(stage) = 3 /\ failed = {} /\ payload.Poller
        IN  /\ (pc = "done" /\ result = "ok") =>
                 /\ made
                 /\ payload.HttpResponse \in change.ExpectedStatusCodes
                 /\ obs # <<>> /\ obs[Len(obs)] = "Succeeded"
                 /\ \A i \in 1..Len(obs) : obs[i] \notin {"Failed", "error"}
            /\ obs # <<>> => made
            /\ failed # {} => pc = "done" /\ result = "performing" /\ obs = <<>>
            /\ (obs # <<>> /\ obs[Len(obs)] \in {"Failed", "error"}) =>
                 pc = "done" /\ result = "polling"
            /\ Len(writes) <= 1

\* a call of CancelThenPoll returned nil after the operation was seen in
\* progress
C20_Witness ==
    /\ res = "vmss" /\ pc = "done" /\ result = "ok"
    /\ change = VirtualMachineScaleSetRollingUpgradesCancel
    /\ Len(obs) >= 2

(***************************************************************************)
(* The custom pagers of the list operations: ListByProjectCustomPager and  *)
(* ListByResourceGroupCustomPager.  The paged request loads a page into    *)
(* the pager, asks it for the next link and follows the link it is given;  *)
(* what a page carries and when the pager is asked is the environment's    *)
(* choice.                                                                 *)
(***************************************************************************)

\* the largest number of loads, calls and requests that is followed
MaxPagerSteps == 4

\* an *odata.Link: nil, or a link
NilLink == <<>>
Links == {<<"page2">>, <<"page3">>}

\* ListByProjectCustomPager{} and ListByResourceGroupCustomPager{}
ListByProjectCustomPager == [NextLink |-> NilLink]

PagerInit ==
    /\ IdIdle
    /\ res = "pager"
    /\ remote = "absent"
    /\ id = ResourceId
    /\ op = "none"
    /\ pc = "idle"
    /\ result = "none"
    /\ got = NilLink
    /\ writes = <<>>
    /\ payload = ListByProjectCustomPager
    /\ existing = NilModel
    /\ change = Idle
    /\ obs = <<>>
    /\ cnt = 0
    /\ idSet = FALSE
    /\ waited = FALSE
    /\ deleted = 0
    /\ stage = <<>>

\* a page is unmarshalled into the pager: its nextLink, or none
LoadPage ==
    /\ res = "pager"
    /\ Len(obs) < MaxPagerSteps
    /\ \E link \in {NilLink} \cup Links :
         /\ payload' = [payload EXCEPT !.NextLink = link]
         /\ obs' = Append(obs, [event |-> "load", link |-> link])
    /\ UNCHANGED <<res, remote, id, op, pc, result, got, writes, existing, change, cnt,
                   idSet, waited, deleted, stage>>
    /\ UNCHANGED idVars

\* mutant: the link stays in the pager
NextPageLinkKept(p) == [return |-> p.NextLink, p |-> p]

\* NextPageLink: the stored link is returned, and the deferred function
\* leaves the pager without one
NextPageLinkOf(p) == [return |-> p.NextLink, p |-> [p EXCEPT !.NextLink = NilLink]]

\* a call of p.NextPageLink()
NextPageLink ==
    /\ res = "pager"
    /\ Len(obs) < MaxPagerSteps
    /\ LET r == NextPageLinkOf(payload)
       IN  /\ payload' = r.p
           /\ got' = r.return
           /\ obs' = Append(obs, [event |-> "call", link |-> r.return])
    /\ pc' = "returned"
    /\ UNCHANGED <<res, remote, id, op, result, writes, existing, change, cnt, idSet,
                   waited, deleted, stage>>
    /\ UNCHANGED idVars

\* the link that the call returned is requested
FollowLink ==
    /\ res = "pager" /\ pc = "returned"
    /\ got # NilLink
    /\ Len(obs) < MaxPagerSteps
    /\ writes' = Append(writes, got)
    /\ obs' = Append(obs, [event |-> "follow", link |-> got])
    /\ pc' = "idle"
    /\ UNCHANGED <<res, remote, id, op, result, got, payload, existing, change, cnt,
                   idSet, waited, deleted, stage>>
    /\ UNCHANGED idVars

PagerNext == LoadPage \/ NextPageLink \/ FollowLink

SpecPager == PagerInit /\ [][PagerNext]_vars

\* the events of the history that are of one kind
EventsOf(kind, n) == {i \in 1..n : obs[i].event = kind}

\* C21: NextPageLink is one-shot.  A call returns the link of the last page
\* loaded if no call was made since, and nil if one was (or if no page was
\* loaded at all); after a call the pager holds no link; and up to any
\* point there are no more links followed than pages loaded with a link.
C21_NextPageLinkOneShot ==
    res = "pager" =>
        /\ \A j \in EventsOf("call", Len(obs)) :
             LET before == {i \in 1..(j - 1) : obs[i].event \in {"load", "call"}}
                 last == CHOOSE i \in before : \A k \in before : k <= i
             IN  obs[j].link = IF before # {} /\ obs[last].event = "load"
                               THEN obs[last].link ELSE NilLink
        /\ (obs # <<>> /\ obs[Len(obs)].event = "call") => payload.NextLink = NilLink
        /\ \A n \in 1..Len(obs) :
             Cardinality(EventsOf("follow", n))
               <= Cardinality({i \in EventsOf("load", n) : obs[i].link # NilLink})
        /\ Len(writes) = Cardinality(EventsOf("follow", Len(obs)))

\* a link was loaded, returned by a call and followed, and a second call
\* made before another page was loaded returned nil
C21_Witness ==
    /\ res = "pager" /\ Len(obs) = 4
    /\ obs[1].event = "load" /\ obs[1].link # NilLink
    /\ obs[2] = [event |-> "call", link |-> obs[1].link]
    /\ obs[3].event = "follow"
    /\ obs[4] = [event |-> "call", link |-> NilLink]

(***************************************************************************)
(* The specification of the lifecycle                                      *)
(***************************************************************************)

Init == LifeInit /\ IdIdle

Next ==
    \/ StartCreate
    \/ StartRead
    \/ StartUpdate
    \/ StartDelete
    \/ Returned
    \/ Settle
    \/ MonitorCreateExists
    \/ MonitorCreateBuild
    \/ MonitorCreateWrite
    \/ MonitorWaitRefresh
    \/ MonitorWaitTimeout
    \/ MonitorCreateSetId
    \/ MonitorRead
    \/ MonitorUpdateGet
    \/ MonitorUpdateBuild
    \/ MonitorUpdateWrite
    \/ MonitorDeleteRequest
    \/ ServiceBusCreateExists
    \/ ServiceBusCreateBuild
    \/ ServiceBusCreateWrite
    \/ ServiceBusCreateSetId
    \/ ServiceBusCreateRules
    \/ ServiceBusRead
    \/ ServiceBusDeleteWaitReady
    \/ ServiceBusDeleteRequest
    \/ ServicePlanCreateExists
    \/ ServicePlanCreateBuild
    \/ ServicePlanCreateWrite
    \/ ServicePlanCreateSetId
    \/ ServicePlanRead
    \/ ServicePlanDeleteRequest
    \/ ServicePlanDiff
    \/ ServiceBusUpdateGet
    \/ ServiceBusUpdateBuild
    \/ ServiceBusUpdateWrite
    \/ ServiceBusUpdateRules
    \/ ServicePlanUpdateGet
    \/ ServicePlanUpdateBuild
    \/ ServicePlanUpdateWrite

Spec == Init /\ [][Next]_vars

(***************************************************************************)
(* Properties of the lifecycle (checked under Spec)                        *)
(***************************************************************************)
LastAre(seq, n, x) ==
    /\ Len(seq) >= n
    /\ \A i \in (Len(seq) - n + 1)..Len(seq) : seq[i] = x

IsPrefix(a, b) == Len(a) <= Len(b) /\ SubSeq(b, 1, Len(a)) = a

\* C1: in Create of each of the three resources a write is issued only if the
\* existence Get reported NotFound; when the Get found the resource Create
\* returns the import error, has written nothing and has set no ID; when
\* the Get failed otherwise Create returns an error and has written nothing.
C1_ImportGuard ==
    op = "create" =>
        /\ writes # <<>> => got = RespNotFound
        /\ got # RespNotFound => ~idSet /\ id = ""
        /\ (pc = "done" /\ got = RespFound) => result = "import" /\ writes = <<>>
        /\ (pc = "done" /\ got = RespFailed) => result = "error" /\ writes = <<>>

C1_Witness ==
    /\ op = "create" /\ pc = "done"
    /\ got = RespFound /\ result = "import" /\ writes = <<>> /\ id = ""

\* C2: in Create of the monitor diagnostic setting the ID is set only after
\* CreateOrUpdate succeeded and the wait saw "Exists" on the last 3 refreshes
\* in a row; a failed write, a timeout or a failed refresh returns an error
\* with no ID set; the read-back runs only after the ID is set.
C2_IdAfterWait ==
    (res = "monitor" /\ op = "create") =>
        /\ IsPrefix(stage, <<"written", "waited", "setid", "read">>)
        /\ idSet <=> Len(stage) >= 3
        /\ idSet => /\ Len(writes) = 1
                    /\ LastAre(obs, CreateContinuousTargetOccurence, "Exists")
        /\ ~idSet => id = ""
        /\ (pc = "done" /\ result \in {"creating", "waiting"}) => ~idSet
        /\ pc = "read" => idSet

C2_Witness ==
    /\ res = "monitor" /\ op = "create" /\ pc = "done" /\ result = "ok"
    /\ idSet /\ id = ResourceId
    /\ obs = <<"Exists", "NotFound", "Exists", "Exists", "Exists">>

\* C3 as claimed: Delete of each of the three resources returns success only
\* after the remote deletion has been waited for to completion.
C3_DeleteWaits ==
    (op = "delete" /\ pc = "done" /\ result = "ok") => waited

\* C3 as amended: Delete of the monitor diagnostic setting returns success
\* only after the wait saw "NotFound" on the last 5 refreshes in a row, and
\* Delete of the Service Bus namespace only after DeleteThenPoll polled the
\* deletion to its end; Delete of the service plan issues one Delete request,
\* waits for nothing and returns success when the request is answered.
C3_DeleteWaitsButPlan ==
    (op = "delete" /\ pc = "done" /\ result = "ok") =>
        /\ res = "monitor" =>
              /\ waited /\ deleted = 1
              /\ LastAre(obs, DeleteContinuousTargetOccurence, "NotFound")
        /\ res = "servicebus" =>
              waited /\ deleted = 1 /\ stage = <<"ready", "deleted">> /\ remote = "absent"
        /\ res = "serviceplan" => ~waited /\ deleted = 1 /\ obs = <<>>

C3_Witness ==
    /\ res = "monitor" /\ op = "delete" /\ pc = "done" /\ result = "ok"
    /\ waited /\ Len(obs) > DeleteContinuousTargetOccurence

\* C4: in Read of each of the three resources a NotFound answer removes the
\* resource from state and Read returns no error; any other error of the Get
\* is returned and the ID stays as it was.
C4_ReadGone ==
    (op = "read" /\ pc = "done") =>
        /\ got = RespNotFound => id = "" /\ result = "ok"
        /\ got = RespFailed => id = ResourceId /\ result = "retrieving"

C4_Witness ==
    op = "read" /\ pc = "done" /\ got = RespNotFound /\ id = "" /\ result = "ok"

\* C5 as claimed: neither Create nor Update of the monitor diagnostic setting
\* issues CreateOrUpdate with a payload in which no log setting and no metric
\* setting is enabled.
C5_SomethingEnabled ==
    \A i \in 1..Len(writes) :
        writes[i].kind = "setting" =>
            AnyEnabled(writes[i].Logs) \/ AnyEnabled(writes[i].Metrics)

\* C9: Create of a Service Bus namespace issues the namespace write only for a
\* consistent SKU and size (not Premium with capacity and partitions 0, or
\* Premium with both above 0); any other combination returns an error with
\* nothing written and no ID set.
C9_SkuSizes ==
    (res = "servicebus" /\ op = "create" /\ change # Idle) =>
        LET premium == change.sku \in {"Premium", "premium", "PREMIUM"}
            consistent ==
                \/ ~premium /\ change.capacity = 0
                            /\ change.premium_messaging_partitions = 0
                \/ premium /\ change.capacity > 0
                           /\ change.premium_messaging_partitions > 0
        IN  /\ writes # <<>> => consistent
            /\ ~consistent =>
                  pc = "done" /\ result # "ok" /\ writes = <<>> /\ ~idSet /\ id = ""

C9_Witness ==
    /\ res = "servicebus" /\ op = "create" /\ writes # <<>>
    /\ change # Idle /\ change.sku = "Premium" /\ change.capacity = 16
    /\ change.premium_messaging_partitions = 4

\* C10 as claimed: expandMonitorDiagnosticsSettingsEnabledLogs accepts a list
\* of enabled_log blocks only if each has exactly one of category and
\* category_group (here: Create got past the expansion of its blocks).
C10_ExactlyOne ==
    (res = "monitor" /\ op = "create" /\ pc = "write") =>
        \A i \in 1..Len(change.enabled_log) :
            (change.enabled_log[i].category # "")
                # (change.enabled_log[i].category_group # "")

\* C11 as claimed: the service plan CustomizeDiff accepts a changed
\* maximum_elastic_worker_count above 1 only for a SKU that supports scale-out
\* (Elastic Premium), or for a Premium SKU with premium_plan_auto_scale_enabled
\* true; for every other SKU it returns an error.
C11_ElasticOrAutoScaled ==
    (/\ res = "serviceplan" /\ op = "diff"
     /\ change.ecChanged /\ change.newEcValue > 1 /\ result = "ok") =>
        \/ PlanSupportsScaleOut(change.sku_name)
        \/ PlanIsPremium(change.sku_name) /\ change.newAutoScaleEnabled

\* C13: Delete of the monitor diagnostic setting goes on to the wait when the
\* delete call is answered without error or with NotFound, returns an error
\* without any refresh on another delete error, returns success only after
\* the last 5 refreshes were NotFound with only Exists seen before them, and
\* fails when a refresh fails with an error that is not a 404.
C13_DeleteOfMonitor ==
    (res = "monitor" /\ op = "delete") =>
        /\ (pc = "wait" \/ obs # <<>>) => got \in {RespFound, RespNotFound}
        /\ (pc = "done" /\ got = RespFailed) => result = "deleting" /\ obs = <<>>
        /\ (pc = "done" /\ got = RespNotFound) => result \in {"ok", "waiting"}
        /\ (pc = "done" /\ result = "ok") =>
              /\ LastAre(obs, DeleteContinuousTargetOccurence, "NotFound")
              /\ \A i \in 1..Len(obs) : obs[i] \in {"Exists", "NotFound"}
        /\ (\E i \in 1..Len(obs) : obs[i] = "") =>
              pc = "done" /\ result = "waiting" /\ obs[Len(obs)] = ""

C13_Witness ==
    /\ res = "monitor" /\ op = "delete" /\ pc = "done" /\ result = "ok"
    /\ got = RespNotFound
    /\ obs = <<"NotFound", "NotFound", "NotFound", "NotFound", "NotFound">>

\* C14: in Create of the Service Bus namespace the ID is set only after
\* CreateOrUpdateThenPoll succeeded, the network rule set is written only
\* after the ID is set, and the read-back runs only after the network rule
\* set step succeeded; a failed namespace write leaves no ID, and a failed
\* network rule set step returns an error with the ID set.
C14_CreateOrder ==
    (res = "servicebus" /\ op = "create") =>
        /\ IsPrefix(stage, <<"written", "setid", "rules", "read">>)
        /\ idSet <=> Len(stage) >= 2
        /\ idSet => id = ResourceId /\ remote = "present"
        /\ (\E i \in 1..Len(writes) : writes[i].kind = "networkRuleSet") => idSet
        /\ pc = "rules" => idSet
        /\ pc = "read" => Len(stage) = 3
        /\ (pc = "done" /\ result = "creating") => ~idSet /\ id = ""
        /\ (pc = "done" /\ result = "network rule set") =>
              idSet /\ id = ResourceId /\ Len(stage) = 2

C14_Witness ==
    /\ res = "servicebus" /\ op = "create" /\ pc = "done"
    /\ result = "network rule set" /\ id = ResourceId
    /\ Len(writes) = 2 /\ writes[2].kind = "networkRuleSet"

\* C15: Delete of the Service Bus namespace sends DeleteThenPoll only after
\* the wait for the namespace to be ready succeeded; when the wait fails
\* Delete returns an error and no delete request is sent.
C15_DeleteAfterReady ==
    (res = "servicebus" /\ op = "delete") =>
        /\ pc = "request" => stage = <<"ready">>
        /\ deleted > 0 => Len(stage) >= 1 /\ stage[1] = "ready" /\ deleted = 1
        /\ (pc = "done" /\ stage = <<>>) => result = "waiting" /\ deleted = 0

C15_Witness ==
    /\ res = "servicebus" /\ op = "delete" /\ pc = "done"
    /\ result = "waiting" /\ deleted = 0 /\ id = ResourceId

\* C16: in Update of the monitor diagnostic setting, when enabled_log has
\* changed and the new set is empty, the logs sent are the log settings
\* returned by the Get, in the same order, each with Enabled false; so are
\* the metrics sent when enabled_metric has changed to the empty set and
\* metric has not changed.
C16_EmptiedAreDisabled ==
    (res = "monitor" /\ op = "update" /\ writes # <<>>) =>
        /\ (change.enabled_log /\ change.noLogBlocks) =>
              /\ Len(writes[1].Logs) = Len(existing.Logs)
              /\ \A i \in 1..Len(existing.Logs) :
                    writes[1].Logs[i] = [existing.Logs[i] EXCEPT !.Enabled = FALSE]
        /\ (change.enabled_metric /\ change.noMetricBlocks /\ ~change.metric) =>
              /\ Len(writes[1].Metrics) = Len(existing.Metrics)
              /\ \A i \in 1..Len(existing.Metrics) :
                    writes[1].Metrics[i] = [existing.Metrics[i] EXCEPT !.Enabled = FALSE]

C16_Witness ==
    /\ res = "monitor" /\ op = "update" /\ Len(writes) = 1
    /\ change.enabled_log /\ change.noLogBlocks
    /\ Len(existing.Logs) = 2
    /\ existing.Logs[1].Enabled /\ ~existing.Logs[2].Enabled
    /\ ~writes[1].Logs[1].Enabled /\ writes[1].Logs[1].Category = existing.Logs[1].Category

\* C17: in Update of the monitor diagnostic setting, when enabled_log has not
\* changed the logs sent in CreateOrUpdate are the log settings returned by
\* the Get, and when neither enabled_metric nor metric has changed the
\* metrics sent are the metric settings returned by the Get.
C17_UnchangedAreKept ==
    (res = "monitor" /\ op = "update" /\ writes # <<>>) =>
        /\ ~change.enabled_log => writes[1].Logs = existing.Logs
        /\ (~change.enabled_metric /\ ~change.metric) =>
              writes[1].Metrics = existing.Metrics

C17_Witness ==
    /\ res = "monitor" /\ op = "update" /\ Len(writes) = 1
    /\ ~change.enabled_log /\ change.enabled_metric
    /\ Len(existing.Logs) = 2 /\ writes[1].Logs = existing.Logs
    /\ existing.Logs[1].Enabled /\ ~existing.Logs[2].Enabled

\* the fields of a Service Bus namespace model and of a service plan model,
\* each with the attribute whose change overwrites it
NamespaceFields ==
    {<<"Identity", "identity">>, <<"PublicNetworkAccess", "public_network_access_enabled">>,
     <<"Encryption", "customer_managed_key">>, <<"DisableLocalAuth", "local_auth_enabled">>,
     <<"Tags", "tags">>, <<"MinimumTlsVersion", "minimum_tls_version">>}

PlanFields ==
    {<<"PerSiteScaling", "per_site_scaling_enabled">>, <<"Tags", "tags">>,
     <<"ElasticScaleEnabled", "premium_plan_auto_scale_enabled">>,
     <<"MaximumElasticWorkerCount", "maximum_elastic_worker_count">>,
     <<"ZoneRedundant", "zone_balancing_enabled">>}

\* C18 as claimed: in Update of the Service Bus namespace and of the service
\* plan every field of the payload whose attribute has no change has the
\* value returned by Get, the SKU capacity too when only the SKU name changed.
C18_UnchangedFieldsKept ==
    (op = "update" /\ res \in {"servicebus", "serviceplan"} /\ writes # <<>>) =>
        LET sent == writes[1].Model
        IN  /\ \A f \in IF res = "servicebus" THEN NamespaceFields ELSE PlanFields :
                  f[2] \notin change.has => sent[f[1]] = existing[f[1]]
            /\ res = "servicebus" =>
                  /\ "sku" \notin change.has => sent.Sku.Name = existing.Sku.Name
                                                /\ sent.Sku.Tier = existing.Sku.Tier
                  /\ "capacity" \notin change.has =>
                        sent.Sku.Capacity = existing.Sku.Capacity
            /\ res = "serviceplan" =>
                  /\ "sku_name" \notin change.has => sent.Sku.Name = existing.Sku.Name
                  /\ "worker_count" \notin change.has =>
                        sent.Sku.Capacity = existing.Sku.Capacity

\* C18 as amended: every field of the payload whose attribute has no change
\* has the value returned by Get, but for the SKU capacity of the Service Bus
\* namespace: when sku has changed the SKU sent is a new one of the configured
\* name and tier, and its capacity is the configured one if capacity has
\* changed too and is absent otherwise, whatever the Get returned.
C18_UnchangedFieldsKeptButCapacity ==
    (op = "update" /\ res \in {"servicebus", "serviceplan"} /\ writes # <<>>) =>
        LET sent == writes[1].Model
        IN  /\ \A f \in IF res = "servicebus" THEN NamespaceFields ELSE PlanFields :
                  f[2] \notin change.has => sent[f[1]] = existing[f[1]]
            /\ res = "servicebus" =>
                  /\ "sku" \notin change.has => sent.Sku.Name = existing.Sku.Name
                                                /\ sent.Sku.Tier = existing.Sku.Tier
                  /\ "sku" \in change.has => sent.Sku.Name = change.sku
                                             /\ sent.Sku.Tier = change.sku
                  /\ "capacity" \in change.has => sent.Sku.Capacity = <<change.capacity>>
                  /\ "capacity" \notin change.has =>
                        sent.Sku.Capacity = IF "sku" \in change.has THEN <<>>
                                            ELSE existing.Sku.Capacity
            /\ res = "serviceplan" =>
                  /\ "sku_name" \notin change.has => sent.Sku.Name = existing.Sku.Name
                  /\ "worker_count" \notin change.has =>
                        sent.Sku.Capacity = existing.Sku.Capacity

C18_Witness ==
    /\ op = "update" /\ res = "servicebus" /\ Len(writes) >= 1
    /\ change.has = {"sku"} /\ change.sku = "Basic"
    /\ existing.Sku = [Name |-> "Standard", Tier |-> "Standard", Capacity |-> <<0>>]
    /\ writes[1].Model.Sku = [Name |-> "Basic", Tier |-> "Basic", Capacity |-> <<>>]
    /\ writes[1].Model.Tags = existing.Tags

\* C19 as claimed: after a successful Read of the monitor diagnostic setting
\* each destination attribute in state holds the remote value (the ID as the
\* parser writes it) when the remote setting has one, and is empty when it
\* has none, whatever the attribute held before the Read.
C19_DestinationsFollowRemote ==
    (res = "monitor" /\ op = "read" /\ pc = "done" /\ result = "ok"
     /\ got = RespFound) =>
        LET m == payload.model
            remoteOf(v) == IF v = "" THEN "" ELSE ParseDestinationIDInsensitively(v).ID
        IN  /\ ~m.nil
            /\ payload.state.eventhub_authorization_rule_id
                  = remoteOf(m.EventHubAuthorizationRuleId)
            /\ payload.state.log_analytics_workspace_id = remoteOf(m.WorkspaceId)
            /\ payload.state.storage_account_id = remoteOf(m.StorageAccountId)
            /\ payload.state.partner_solution_id = m.MarketplacePartnerId

====
